---- MODULE Spec2Model ----
(***************************************************************************)
(* VFD SWMR coordination core of src/src/H5Fvfd_swmr.c: the writer's       *)
(* end-of-tick protocol, the shadow (metadata) file with its header and    *)
(* index frames, the delayed list of superseded shadow extents, and a      *)
(* reader that polls the shadow file.                                      *)
(*                                                                         *)
(* The writer is one sequential process; its position inside the running   *)
(* operation is `pc` (the phase) and `wop` (the operation).  Every write   *)
(* to the shadow file is a step of its own, because the shadow file is the *)
(* one resource a concurrent reader process observes.                      *)
(***************************************************************************)
EXTENDS Integers, Sequences, FiniteSets, TLC

(***************************************************************************)
(* Bounds of the model.                                                    *)
(***************************************************************************)
NPages == 2      \* primary-file metadata pages 1..NPages
NExt == 3        \* shadow-file pages the free-space manager can hand out
NImg == 1        \* distinct page images an application write can produce
MaxTick == 7     \* no operation starts once tick_num has reached this
MaxFail == 1     \* failures of collaborators (I/O, allocation, clock) per run
fs_page_size == 16       \* configured page size, scaled down
md_pages_reserved == 5   \* configured size of the header/index region in pages
DwMaxPage == 3   \* delay_write: page offsets 1..DwMaxPage in the index
DwMaxTick == 2   \* delay_write: current ticks 1..DwMaxTick
DwMaxFlush == 6  \* delay_write: delayed_flush values 0..DwMaxFlush
EotNFiles == 2       \* EOT queue: open files 1..EotNFiles
EotMaxEntries == 3   \* EOT queue: queue entries that can be allocated
EotMaxDeadline == 3  \* EOT queue: end_of_tick values 1..EotMaxDeadline
SchMaxTick == 2      \* EOT scheduler: ticks 1..SchMaxTick a reader finds in a header
RdMaxPage == 3   \* reader: pages 1..RdMaxPage in the published indexes
RdMaxOff == 2    \* reader: shadow page offsets 1..RdMaxOff of an entry
RdMaxTick == 3   \* reader: the writer publishes ticks 1..RdMaxTick

(***************************************************************************)
(* Configuration and format constants.                                     *)
(***************************************************************************)
max_lag == 3
H5FD_MD_HEADER_OFF == 0
H5FD_MD_HEADER_SIZE == 36
H5FD_MD_INDEX_ENTRY_SIZE == 16
H5_SIZEOF_MAGIC == 4
H5_SIZEOF_CHKSUM == 4
UINT32_MOD == 65536 \* range of a 4-byte field, scaled to 2^16 (TLC integers are 32-bit)
UINT64_MOD == 1073741824 \* range of an 8-byte field, scaled to 2^30
HADDR_UNDEF == -1
NULL == 0

H5FD_MD_HEADER_MAGIC == "HDR"
H5FD_MD_INDEX_MAGIC == "IDX"

H5FD_MD_INDEX_SIZE(n) ==
    H5_SIZEOF_MAGIC + 8 + 4 + n * H5FD_MD_INDEX_ENTRY_SIZE + H5_SIZEOF_CHKSUM

Pages == 1..NPages
Images == 1..NImg
\* shadow-file page offsets behind the reserved header/index region
Ext == md_pages_reserved .. (md_pages_reserved + NExt - 1)

UINT32ENCODE(x) == x % UINT32_MOD

UINT64ENCODE(x) == x % UINT64_MOD

H5_checksum_metadata(image) == (image * 31 + 7) % UINT32_MOD

(***************************************************************************)
(* Index entries and the in-memory index.                                  *)
(***************************************************************************)
ZeroEntry ==
    [hdf5_page_offset |-> 0, md_file_page_offset |-> 0, length |-> 0,
     chksum |-> 0, entry_ptr |-> NULL]

\* an index with one slot more than the reserved pages of the shadow file hold
entries_in_index_one_more ==
    (fs_page_size * md_pages_reserved - H5FD_MD_HEADER_SIZE)
        \div H5FD_MD_INDEX_ENTRY_SIZE + 1

\* H5F__vfd_swmr_writer__create_index: capacity and zero-filled array
entries_in_index ==
    (fs_page_size * md_pages_reserved - H5FD_MD_HEADER_SIZE)
        \div H5FD_MD_INDEX_ENTRY_SIZE

H5F__vfd_swmr_writer__create_index == [k \in 1..entries_in_index |-> ZeroEntry]

\* H5F__idx_entry_cmp: -1, 0, 1 by hdf5_page_offset
H5F__idx_entry_cmp(entry1, entry2) ==
    IF entry1.hdf5_page_offset < entry2.hdf5_page_offset THEN -1
    ELSE IF entry1.hdf5_page_offset > entry2.hdf5_page_offset THEN 1
    ELSE 0

RECURSIVE InsertSorted(_, _)
InsertSorted(s, e) ==
    IF s = <<>> THEN <<e>>
    ELSE IF H5F__idx_entry_cmp(e, Head(s)) < 0 THEN <<e>> \o s
    ELSE <<Head(s)>> \o InsertSorted(Tail(s), e)

RECURSIVE SortEntries(_)
SortEntries(s) ==
    IF s = <<>> THEN <<>> ELSE InsertSorted(SortEntries(Tail(s)), Head(s))

\* a sort that leaves the array as it is
HDqsort_skipped(index, n) == index

\* HDqsort(index, num_entries, ...): sorts the first n slots, leaves the rest
HDqsort(index, n) ==
    IF n = 0 THEN index
    ELSE SortEntries(SubSeq(index, 1, n)) \o SubSeq(index, n + 1, Len(index))

\* a loop that takes every slot, whether its entry_ptr is null or not
NextDirty_every_slot(index, from, n) == IF from > n THEN n + 1 ELSE from

\* first slot at or after `from` whose entry_ptr is non-null, else n + 1
RECURSIVE NextDirty(_, _, _)
NextDirty(index, from, n) ==
    IF from > n THEN n + 1
    ELSE IF index[from].entry_ptr # NULL THEN from
    ELSE NextDirty(index, from + 1, n)

(***************************************************************************)
(* Frames of the shadow file.                                              *)
(***************************************************************************)
ZeroHdr == [magic |-> "", tick_num |-> 0, index_length |-> 0]
ZeroIdx == [magic |-> "", tick_num |-> 0, num_entries |-> 0, entries |-> <<>>]

\* an encoding that drops the checksum of the entry
EncodeEntry_no_chksum(e) ==
    [hdf5_page_offset |-> UINT32ENCODE(e.hdf5_page_offset),
     md_file_page_offset |-> UINT32ENCODE(e.md_file_page_offset),
     length |-> UINT32ENCODE(e.length),
     chksum |-> 0]

EncodeEntry(e) ==
    [hdf5_page_offset |-> UINT32ENCODE(e.hdf5_page_offset),
     md_file_page_offset |-> UINT32ENCODE(e.md_file_page_offset),
     length |-> UINT32ENCODE(e.length),
     chksum |-> UINT32ENCODE(e.chksum)]

\* a header image naming the tick after the one given
construct_md_hdr_next_tick(tick, n) ==
    [magic |-> H5FD_MD_HEADER_MAGIC, tick_num |-> tick + 1,
     index_length |-> H5FD_MD_INDEX_SIZE(n)]

\* a header image whose index length ignores the entries
construct_md_hdr_empty_len(tick, n) ==
    [magic |-> H5FD_MD_HEADER_MAGIC, tick_num |-> tick,
     index_length |-> H5FD_MD_INDEX_SIZE(0)]

\* image built by H5F__vfd_swmr_construct_write_md_hdr
construct_md_hdr(tick, n) ==
    [magic |-> H5FD_MD_HEADER_MAGIC, tick_num |-> tick,
     index_length |-> H5FD_MD_INDEX_SIZE(n)]

\* image built by H5F__vfd_swmr_construct_write_md_idx
construct_md_idx(tick, n, index) ==
    [magic |-> H5FD_MD_INDEX_MAGIC, tick_num |-> UINT64ENCODE(tick),
     num_entries |-> UINT32ENCODE(n),
     entries |-> [k \in 1..n |-> EncodeEntry(index[k])]]

\* number of bytes HDwrite puts into the shadow file for an index image
IdxFrameBytes(frame) ==
    H5_SIZEOF_MAGIC + 8 + 4 + Len(frame.entries) * H5FD_MD_INDEX_ENTRY_SIZE
        + H5_SIZEOF_CHKSUM

\* HDlseek and HDwrite of the index image, lines 1823-1833: the image goes
\* right behind the header, whatever its length; these are the shadow pages
\* behind the reserved region that its end reaches into
IdxOverrun(frame) ==
    {x \in Ext : x * fs_page_size <
                     H5FD_MD_HEADER_OFF + H5FD_MD_HEADER_SIZE
                         + IdxFrameBytes(frame)}

\* the bytes of a shadow page after the end of an index image has replaced
\* its beginning: they are no image of a page any more
Overwritten(bytes) == IF bytes = NULL THEN NULL ELSE NImg + 1

(***************************************************************************)
(* Order of the phases of the operations that write the shadow file.       *)
(***************************************************************************)
\* the order with the two frame writes exchanged
update_phases_swapped == <<"entries", "hdr", "idx", "release">>
\* H5F_update_vfd_swmr_metadata_file: entry loop, index, header, release
update_phases == <<"entries", "idx", "hdr", "release">>
\* H5F_vfd_swmr_init, opening an existing file
init_phases == <<"hdr", "idx", "fin">>
\* H5F_vfd_swmr_close_or_flush
close_or_flush_phases == <<"idx", "hdr", "fin">>

PhasesOf(op) ==
    IF op = "eot" THEN update_phases
    ELSE IF op = "init" THEN init_phases
    ELSE close_or_flush_phases

RECURSIVE PosIn(_, _)
PosIn(s, x) == IF s = <<>> THEN 1 ELSE IF Head(s) = x THEN 1 ELSE 1 + PosIn(Tail(s), x)

\* the phase that follows phase p in operation op
NextPhase(op, p) == PhasesOf(op)[PosIn(PhasesOf(op), p) + 1]

(***************************************************************************)
(* Page buffer (H5PB) and shadow free-space manager (H5MV): collaborators. *)
(***************************************************************************)
TlPages(t) == {p \in Pages : t[p] # NULL}

InIndex(index, used, p) == \E k \in 1..used : index[k].hdf5_page_offset = p

RECURSIVE SetToSeq(_)
SetToSeq(S) ==
    IF S = {} THEN <<>>
    ELSE LET m == CHOOSE x \in S : \A y \in S : x <= y
         IN  <<m>> \o SetToSeq(S \ {m})

\* pages of the tick list that have no entry among the used entries
NewPages(index, used, t) ==
    SetToSeq({p \in TlPages(t) : ~InIndex(index, used, p)})

\* H5PB_vfd_swmr__update_index: a used entry whose page is in the tick list gets
\* the page's image as entry_ptr; a page without entry is appended behind the
\* used entries.  The caller adds idx_entries_added to the used count later.
H5PB_vfd_swmr__update_index(index, used, t) ==
    LET new == NewPages(index, used, t)
        added == Len(new)
    IN  [added |-> added,
         index |-> [k \in 1..Len(index) |->
            IF k <= used
            THEN IF index[k].hdf5_page_offset \in TlPages(t)
                 THEN [index[k] EXCEPT !.entry_ptr = t[index[k].hdf5_page_offset]]
                 ELSE index[k]
            ELSE IF k <= used + added
            THEN [hdf5_page_offset |-> new[k - used], md_file_page_offset |-> 0,
                  length |-> fs_page_size, chksum |-> 0,
                  entry_ptr |-> t[new[k - used]]]
            ELSE index[k]]]

\* the merge cannot be done: no index to merge into, or no slot left
UpdateIndexImpossible(index, used, t) ==
    \/ index = <<>> /\ TlPages(t) # {}
    \/ used + Len(NewPages(index, used, t)) > Len(index)

\* H5MV_alloc: the addresses it may return for a request of `size` bytes
H5MV_alloc(alloc, size) ==
    {x * fs_page_size : x \in {y \in Ext : y \notin alloc /\ size = fs_page_size}}

\* H5MV_free of the extent at byte address addr
H5MV_free(alloc, addr, size) == alloc \ {addr \div fs_page_size}

(***************************************************************************)
(* Delayed list.                                                           *)
(***************************************************************************)
\* a page buffer that never lets a delayed write go
H5PB_vfd_swmr__release_delayed_writes_none(list, tick) == list

\* H5PB_vfd_swmr__release_delayed_writes: the entries of the delayed write
\* list whose delay has expired leave the list
H5PB_vfd_swmr__release_delayed_writes(list, tick) ==
    SelectSeq(list, LAMBDA until : until > tick)

\* an insertion into the delayed list at its tail
DlPrepend_at_tail(dl_entry, list) == Append(list, dl_entry)

\* H5F__LL_PREPEND(dl_entry, dl_head_ptr, dl_tail_ptr), line 511
DlPrepend(dl_entry, list) == <<dl_entry>> \o list

\* a release walk that lets an entry go one tick before max_lag ticks are over
Expired_one_tick_early(d, tick) ==
    (tick >= max_lag) /\ (d.tick_num <= tick - max_lag + 1)

\* the test of the release walk, lines 589-591
Expired(d, tick) == (tick > max_lag) /\ (d.tick_num <= tick - max_lag)

\* number of entries the walk from the tail releases before it breaks
RECURSIVE NumExpired(_, _)
NumExpired(list, tick) ==
    IF list = <<>> THEN 0
    ELSE IF Expired(list[Len(list)], tick)
         THEN 1 + NumExpired(SubSeq(list, 1, Len(list) - 1), tick)
         ELSE 0

DropTail(list, k) == SubSeq(list, 1, Len(list) - k)

\* the shadow pages freed by releasing the last k entries
TailOffsets(list, k) ==
    {list[Len(list) - m + 1].md_file_page_offset : m \in 1..k}

RECURSIVE FreeAll(_, _, _)
FreeAll(alloc, list, k) ==
    IF k = 0 THEN alloc
    ELSE FreeAll(H5MV_free(alloc, list[Len(list)].md_file_page_offset * fs_page_size,
                           list[Len(list)].length),
                 DropTail(list, 1), k - 1)

MaxOf(S) == CHOOSE x \in S : \A y \in S : y <= x

\* extents referenced by the first n index entries or held on the delayed list
InUse(index, n, list) ==
    {index[k].md_file_page_offset :
        k \in {j \in 1..n : index[j].md_file_page_offset # 0}}
    \cup {list[k].md_file_page_offset : k \in 1..Len(list)}

\* history records of releasing the last k entries of list at tick `tick`
ReleaseLog(list, k, alloc, index, n, tick) ==
    [j \in 1..k |->
        LET now == DropTail(list, j - 1)
            d == now[Len(now)]
        IN  [off |-> d.md_file_page_offset,
             at |-> tick,
             tick_num |-> d.tick_num,
             sup |-> MaxOf({now[m].tick_num :
                        m \in {q \in 1..Len(now) :
                                 now[q].md_file_page_offset = d.md_file_page_offset}}),
             refd |-> \E q \in 1..n :
                        index[q].md_file_page_offset = d.md_file_page_offset,
             was_free |-> d.md_file_page_offset \notin FreeAll(alloc, list, j - 1)]]

(***************************************************************************)
(* H5F_vfd_swmr_writer__delay_write.                                       *)
(***************************************************************************)
\* an index entry as the page buffer leaves it: page and delayed_flush
DwEntry(page, flush) ==
    [hdf5_page_offset |-> page, md_file_page_offset |-> 0, length |-> 0,
     chksum |-> 0, entry_ptr |-> NULL, delayed_flush |-> flush]

\* a search that takes the slot behind the used entries into its range
DwTop_one_too_far(idx, used) == IF idx # <<>> THEN used ELSE -1

\* top of the search range, 0-based: lines 691-695
DwTop(idx, used) == IF idx # <<>> THEN used - 1 ELSE -1

\* the binary search of lines 697-716; yields the 0-based slot found, or -1
RECURSIVE DwSearch(_, _, _, _)
DwSearch(idx, page, bottom, top) ==
    IF top < bottom THEN -1
    ELSE LET probe == (top + bottom) \div 2
         IN  IF idx[probe + 1].hdf5_page_offset < page
             THEN DwSearch(idx, page, probe + 1, top)
             ELSE IF idx[probe + 1].hdf5_page_offset > page
             THEN DwSearch(idx, page, bottom, probe - 1)
             ELSE probe

\* lines 718-727: the value of delay_write_until for the slot found
DwValue(idx, probe, tick) ==
    IF probe # -1
    THEN IF idx[probe + 1].delayed_flush >= tick
         THEN idx[probe + 1].delayed_flush
         ELSE 0
    ELSE tick + max_lag

\* a range test that lets every value pass
DwOutOfRange_never(until, tick) == FALSE

\* the range test of lines 729-736
DwOutOfRange(until, tick) ==
    (until # 0) /\ ~((until >= tick) /\ (until <= tick + max_lag))

VARIABLES
    pc,                   \* writer: "closed", "idle", a phase, or "failed"
    wop,                  \* writer: the operation running or last run
    closing,              \* argument of H5F_vfd_swmr_close_or_flush
    ret_value,            \* result of the last completed writer operation
    tick_num,             \* f->shared->tick_num
    mdf_idx,              \* f->shared->mdf_idx, <<>> when NULL
    mdf_idx_entries_used, \* f->shared->mdf_idx_entries_used
    dl,                   \* delayed list, head first
    mv_alloc,             \* shadow pages the free-space manager has handed out
    md_hdr,               \* shadow file: header frame
    md_idx,               \* shadow file: index frame
    md_pages,             \* shadow file: contents of the pages behind the index
    tl,                   \* page buffer tick list: page -> image, NULL if absent
    i,                    \* loop variable of the entry loop (1-based)
    num_entries,          \* argument of H5F_update_vfd_swmr_metadata_file
    idx_entries_added,    \* local of H5F_vfd_swmr_writer_end_of_tick
    nfail,                \* failures of collaborators so far
    wlog,                 \* history: shadow writes of the operation `wop`
    alloc_log,            \* history: allocations of the last end-of-tick
    released,             \* history: extents freed by the last end-of-tick
    pub,                  \* history: frames of the last successful publication
    hdr_pub_idx,          \* history: the index published with the header in md_hdr
    ci_pre,               \* history: what the last create_index call found
    last_eot_hdr,         \* history: tick of the last header an end-of-tick wrote
    hist,                 \* history: how the file was opened and used
    rd_pc,                \* reader: "idle", "hdr" (header read), "done"
    rd_hdr,               \* reader: header frame it read
    rd_idx,               \* reader: index frame it read
    rd_pub_idx,           \* history: the index published with the header it read
    dw_pc,                \* delay_write: "off", "ready" (arguments set), "done"
    dw_page,              \* delay_write: argument page
    dw_ie,                \* delay_write: slot ie_ptr points to (1-based), 0 if NULL
    dw_until,             \* delay_write: local delay_write_until at the range test
    dw_out,               \* delay_write: *delay_write_until_ptr
    dw_ret,               \* delay_write: ret_value
    eot_entry,            \* the H5F_vfd_swmr_eot_queue_entry_t objects
    vfd_swmr_eot_queue_head_g,
    vfd_swmr_eot_queue_tail_g,
    vfd_swmr_writer_g,
    end_of_tick_g,
    eot_ub,               \* "no", or how a store through NULL ended
    re_pc,                \* reader end of tick: "off", "idle" or the next step
    tmp_tick_num,         \* reader end of tick: local tmp_tick_num
    old_mdf_idx,          \* f->shared->old_mdf_idx, <<>> if NULL
    old_mdf_idx_entries_used,
    pass,                 \* reader end of tick: local pass
    re_i,                 \* reader end of tick: local i of the walk
    re_j,                 \* reader end of tick: local j of the walk
    shared_end_of_tick,   \* f->shared->end_of_tick
    re_calls,             \* history: calls made by the current end of tick
    re_ret,               \* reader end of tick: ret_value
    re_pre,               \* history: the file's fields when the call began
    sch_files,            \* scheduler: writer flag and end_of_tick of each file
    dwl,                  \* page buffer: delay_write_until of each entry of
                          \* the delayed write list (dwl_len is its length)
    pfc_pc,               \* prep_for_flush_or_close: position
    pfc_ret,              \* prep_for_flush_or_close: ret_value
    req,                  \* wait_a_tick: time the next HDnanosleep is asked for
    pfc_hist,             \* history: end of ticks run, ticks slept, time
                          \* slept in the current wait, HDnanosleep calls
    md_file,              \* shadow file at close: vfd_swmr_md_fd closed,
                          \* HDunlink called, the path gone
    cd_pc,                \* index frame codec: position
    cd_tick,              \* index frame codec: f->shared->tick_num
    cd_index,             \* index frame codec: the in-memory index
    cd_frame,             \* index frame codec: the image written
    cd_out,               \* index frame codec: what the reader decodes
    sleep_errno,          \* wait_a_tick: errno of the last HDnanosleep
    freedspace_head,      \* holding tank: f->shared->freedspace_head
    freedspace_tail,      \* holding tank: f->shared->freedspace_tail
    fs_nodes,             \* the H5MF_freedspace_t objects: timestamp, next,
                          \* where the object is, when it was pushed
    fs_now,               \* what H5_now_usec returns
    fs_arg,               \* the caller's variable behind the argument
                          \* freedspace of H5MF__freedspace_dequeue_time_limit
    fs_hist,              \* history: last operation, its time_limit, the
                          \* objects in the order pushed and in the order left
    fc_pc,                \* H5MF__freedspace_create: position
    fc_cache,             \* the entries of the metadata cache, in the order
                          \* H5AC_iterate visits them
    fc_in,                \* arguments alloc_type and addr, and the ring of
                          \* the API context
    fc_ctx,               \* fs_ctx: ring, fs, and the entry the iteration
                          \* is at
    fc_deps,              \* entries made flush dependency children
    fc_out                \* *fs and ret_value at the return, and the
                          \* number of freedspace objects created

writer_vars == <<pc, wop, closing, ret_value, tick_num, mdf_idx,
                 mdf_idx_entries_used, dl, mv_alloc, tl, i, num_entries,
                 idx_entries_added, nfail>>
shadow_vars == <<md_hdr, md_idx, md_pages>>
hist_vars == <<wlog, alloc_log, released, pub, hdr_pub_idx, ci_pre,
               last_eot_hdr, hist>>
reader_vars == <<rd_pc, rd_hdr, rd_idx, rd_pub_idx>>
dw_vars == <<dw_pc, dw_page, dw_ie, dw_until, dw_out, dw_ret>>
eotq_vars == <<eot_entry, vfd_swmr_eot_queue_head_g, vfd_swmr_eot_queue_tail_g,
               vfd_swmr_writer_g, end_of_tick_g, eot_ub>>
re_vars == <<re_pc, tmp_tick_num, old_mdf_idx, old_mdf_idx_entries_used, pass,
             re_i, re_j, shared_end_of_tick, re_calls, re_ret, re_pre>>
sch_vars == <<sch_files>>
pb_vars == <<dwl>>
pfc_vars == <<pfc_pc, pfc_ret, req, pfc_hist>>
mdf_vars == <<md_file>>
cd_vars == <<cd_pc, cd_tick, cd_index, cd_frame, cd_out>>
wat_vars == <<sleep_errno>>
fs_vars == <<freedspace_head, freedspace_tail, fs_nodes, fs_now, fs_arg,
            fs_hist>>
fc_vars == <<fc_pc, fc_cache, fc_in, fc_ctx, fc_deps, fc_out>>
rest_vars == <<fs_vars, fc_vars>>
more_vars == <<wat_vars, rest_vars>>
aux_vars == <<cd_vars, more_vars>>
ext_vars == <<sch_vars, pb_vars, pfc_vars, mdf_vars, aux_vars>>
other_vars == <<dw_vars, eotq_vars, re_vars, ext_vars>>
vars == <<writer_vars, shadow_vars, hist_vars, reader_vars, other_vars>>

\* value of *delay_write_until_ptr before the callee stores into it
DW_UNSET == -1

\* H5F_vfd_swmr_writer__delay_write is not running
DwOff ==
    /\ dw_pc = "off" /\ dw_page = 0 /\ dw_ie = 0 /\ dw_until = 0
    /\ dw_out = DW_UNSET /\ dw_ret = "none"

EotFiles == 1..EotNFiles
EotIds == 1..EotMaxEntries
EotDeadlines == 1..EotMaxDeadline
SchTicks == 1..SchMaxTick

\* storage no entry has been allocated from
EotFree ==
    [used |-> FALSE, vfd_swmr_writer |-> FALSE, tick_num |-> 0,
     end_of_tick |-> 0, vfd_swmr_file |-> NULL, next |-> NULL, prev |-> NULL]

\* the EOT queue before any file is opened
EotqEmpty ==
    /\ eot_entry = [n \in EotIds |-> EotFree]
    /\ vfd_swmr_eot_queue_head_g = NULL /\ vfd_swmr_eot_queue_tail_g = NULL
    /\ vfd_swmr_writer_g = FALSE /\ end_of_tick_g = 0
    /\ eot_ub = "no"

\* the fields of the file a reader end of tick may change
ReFields ==
    [mdf_idx |-> mdf_idx, mdf_idx_entries_used |-> mdf_idx_entries_used,
     old_mdf_idx |-> old_mdf_idx,
     old_mdf_idx_entries_used |-> old_mdf_idx_entries_used,
     tick_num |-> tick_num]

\* the file is not open for reading
ReOff ==
    /\ re_pc = "off" /\ tmp_tick_num = 0
    /\ old_mdf_idx = <<>> /\ old_mdf_idx_entries_used = 0
    /\ pass = 0 /\ re_i = 0 /\ re_j = 0 /\ shared_end_of_tick = 0
    /\ re_calls = <<>> /\ re_ret = "none"
    /\ re_pre = [mdf_idx |-> <<>>, mdf_idx_entries_used |-> 0,
                 old_mdf_idx |-> <<>>, old_mdf_idx_entries_used |-> 0,
                 tick_num |-> 0]

\* no file is open
SchClosed ==
    [open |-> FALSE, vfd_swmr_writer |-> FALSE, tick_num |-> 0, end_of_tick |-> 0]

SchOff == sch_files = [f \in EotFiles |-> SchClosed]

\* the delayed write list is empty
PbOff == dwl = <<>>

\* H5F_vfd_swmr_writer__prep_for_flush_or_close has not been called
PfcOff ==
    /\ pfc_pc = "idle" /\ pfc_ret = "none" /\ req = 0
    /\ pfc_hist = [eots |-> 0, sleeps |-> 0, slept |-> 0, naps |-> 0]

\* H5F_vfd_swmr_close_or_flush has not come to closing the shadow file
MdfOff == md_file = [closed |-> FALSE, unlink_called |-> FALSE,
                     unlinked |-> FALSE]

\* no index frame is being encoded
CdOff ==
    /\ cd_pc = "off" /\ cd_tick = 0 /\ cd_index = <<>>
    /\ cd_frame = ZeroIdx /\ cd_out = ZeroIdx

\* no HDnanosleep has been called
WatOff == sleep_errno = "none"

FsMaxNodes == 3     \* H5MF_freedspace_t objects followed
FsNodes == 1..FsMaxNodes

\* the holding tank is empty and no freedspace object exists
FsOff ==
    /\ freedspace_head = NULL /\ freedspace_tail = NULL
    /\ fs_nodes = [n \in FsNodes |-> [timestamp |-> 0, next |-> NULL,
                                      at |-> "free", pushed_at |-> 0]]
    /\ fs_now = 0 /\ fs_arg = NULL
    /\ fs_hist = [op |-> "none", time_limit |-> 0, pushed |-> <<>>,
                  left |-> <<>>]

\* H5MF__freedspace_create is not running
FcOff ==
    /\ fc_pc = "off" /\ fc_cache = <<>>
    /\ fc_in = [alloc_type |-> "none", addr |-> 0, cx_ring |-> 0]
    /\ fc_ctx = [ring |-> 0, fs |-> NULL, k |-> 0]
    /\ fc_deps = {}
    /\ fc_out = [fs |-> NULL, ret_value |-> "none", created |-> 0]

RestOff == FsOff /\ FcOff

MoreOff == WatOff /\ RestOff

AuxOff == CdOff /\ MoreOff

ExtOff == SchOff /\ PbOff /\ PfcOff /\ MdfOff /\ AuxOff

OtherInit == DwOff /\ EotqEmpty /\ ReOff /\ ExtOff

Init ==
    /\ pc = "closed" /\ wop = "none" /\ closing = FALSE /\ ret_value = "none"
    /\ tick_num = 0
    /\ mdf_idx = <<>> /\ mdf_idx_entries_used = 0
    /\ dl = <<>> /\ mv_alloc = {}
    /\ md_hdr = ZeroHdr /\ md_idx = ZeroIdx
    /\ md_pages = [x \in Ext |-> NULL]
    /\ tl = [p \in Pages |-> NULL]
    /\ i = 1 /\ num_entries = 0 /\ idx_entries_added = 0
    /\ nfail = 0
    /\ wlog = <<>> /\ alloc_log = <<>> /\ released = <<>>
    /\ pub = [hdr |-> ZeroHdr, idx |-> ZeroIdx]
    /\ hdr_pub_idx = ZeroIdx
    /\ ci_pre = [called |-> FALSE, idx_null |-> TRUE, len |-> 0, used |-> 0]
    /\ last_eot_hdr = 0
    /\ hist = [create |-> FALSE, pure |-> TRUE, eots |-> 0, upd |-> 0]
    /\ rd_pc = "idle" /\ rd_hdr = ZeroHdr /\ rd_idx = ZeroIdx
    /\ rd_pub_idx = ZeroIdx
    /\ OtherInit

CanFail == nfail < MaxFail

\* where a failed operation leaves the writer
AfterFailure(op) ==
    IF op = "init" THEN "failed" ELSE IF op = "close" THEN "closed" ELSE "idle"

\* HGOTO_ERROR: the running operation returns FAIL
OpFail ==
    /\ CanFail
    /\ nfail' = nfail + 1
    /\ pc' = AfterFailure(wop)
    /\ ret_value' = "FAIL"

\* HGOTO_ERROR in H5F_vfd_swmr_writer_end_of_tick before the metadata file is
\* touched: the end of tick returns FAIL and the writer goes on
EotFail ==
    /\ CanFail
    /\ nfail' = nfail + 1
    /\ pc' = AfterFailure("eot")
    /\ ret_value' = "FAIL"

(***************************************************************************)
(* H5F_vfd_swmr_init, writer side.                                         *)
(***************************************************************************)
H5F_vfd_swmr_init(file_create) ==
    /\ pc = "closed" /\ wop = "none"
    /\ wop' = "init"
    /\ tick_num' = 1
    /\ wlog' = <<>>
    /\ hist' = [create |-> file_create, pure |-> TRUE, eots |-> 0, upd |-> 0]
    /\ num_entries' = 0
    /\ \/ \* HDopen, H5MV_alloc, HDftruncate or (new file) the clock fails
          /\ CanFail
          /\ nfail' = nfail + 1
          /\ pc' = "failed"
          /\ ret_value' = "FAIL"
          /\ UNCHANGED mv_alloc
       \/ /\ mv_alloc' = H5FD_MD_HEADER_OFF .. (md_pages_reserved - 1)
          /\ pc' = IF file_create THEN "idle" ELSE init_phases[1]
          /\ ret_value' = IF file_create THEN "SUCCEED" ELSE ret_value
          /\ UNCHANGED nfail
    /\ UNCHANGED <<closing, mdf_idx, mdf_idx_entries_used, dl, tl, i,
                   idx_entries_added>>
    /\ UNCHANGED shadow_vars
    /\ UNCHANGED <<alloc_log, released, pub, hdr_pub_idx, ci_pre, last_eot_hdr>>
    /\ UNCHANGED <<reader_vars, other_vars>>

\* H5F__vfd_swmr_update_end_of_tick_and_tick_num(f, FALSE) at the end of init
Init_Finish ==
    /\ pc = "fin" /\ wop = "init"
    /\ \/ /\ OpFail
          /\ UNCHANGED pub
       \/ /\ pc' = "idle"
          /\ ret_value' = "SUCCEED"
          /\ pub' = [hdr |-> md_hdr, idx |-> md_idx]
          /\ UNCHANGED nfail
    /\ UNCHANGED <<wop, closing, tick_num, mdf_idx, mdf_idx_entries_used, dl,
                   mv_alloc, tl, i, num_entries, idx_entries_added>>
    /\ UNCHANGED shadow_vars
    /\ UNCHANGED <<wlog, alloc_log, released, hdr_pub_idx, ci_pre,
                   last_eot_hdr, hist>>
    /\ UNCHANGED <<reader_vars, other_vars>>

(***************************************************************************)
(* H5F__vfd_swmr_construct_write_md_hdr and ..._md_idx: one frame write.   *)
(***************************************************************************)
\* number of entries the running operation passes to the frame writers
FrameEntries == IF wop = "eot" THEN num_entries ELSE 0

H5F__vfd_swmr_construct_write_md_hdr ==
    /\ pc = "hdr"
    /\ \/ \* HDlseek or HDwrite fails
          /\ OpFail
          /\ UNCHANGED <<md_hdr, wlog, hdr_pub_idx, last_eot_hdr>>
       \/ /\ md_hdr' = construct_md_hdr(tick_num, FrameEntries)
          /\ wlog' = Append(wlog, "hdr")
          /\ hdr_pub_idx' = construct_md_idx(tick_num, FrameEntries, mdf_idx)
          /\ last_eot_hdr' = IF wop = "eot" THEN tick_num ELSE last_eot_hdr
          /\ pc' = NextPhase(wop, "hdr")
          /\ UNCHANGED <<ret_value, nfail>>
    /\ UNCHANGED <<wop, closing, tick_num, mdf_idx, mdf_idx_entries_used, dl,
                   mv_alloc, tl, i, num_entries, idx_entries_added>>
    /\ UNCHANGED <<md_idx, md_pages>>
    /\ UNCHANGED <<alloc_log, released, pub, ci_pre, hist>>
    /\ UNCHANGED <<reader_vars, other_vars>>

H5F__vfd_swmr_construct_write_md_idx ==
    /\ pc = "idx"
    /\ \/ \* HDmalloc, HDlseek or HDwrite fails
          /\ OpFail
          /\ UNCHANGED <<md_idx, md_pages, wlog>>
       \/ LET image == construct_md_idx(tick_num, FrameEntries, mdf_idx)
          IN  /\ md_idx' = image
              /\ md_pages' = [x \in Ext |->
                                 IF x \in IdxOverrun(image)
                                 THEN Overwritten(md_pages[x])
                                 ELSE md_pages[x]]
          /\ wlog' = Append(wlog, "idx")
          /\ pc' = NextPhase(wop, "idx")
          /\ UNCHANGED <<ret_value, nfail>>
    /\ UNCHANGED <<wop, closing, tick_num, mdf_idx, mdf_idx_entries_used, dl,
                   mv_alloc, tl, i, num_entries, idx_entries_added>>
    /\ UNCHANGED md_hdr
    /\ UNCHANGED <<alloc_log, released, pub, hdr_pub_idx, ci_pre,
                   last_eot_hdr, hist>>
    /\ UNCHANGED <<reader_vars, other_vars>>

(***************************************************************************)
(* The application modifies a metadata page: the page buffer puts the page *)
(* on its tick list.                                                       *)
(***************************************************************************)
DirtyPage(p, img) ==
    /\ pc = "idle" /\ tick_num < MaxTick
    /\ tl[p] # img
    /\ tl' = [tl EXCEPT ![p] = img]
    /\ hist' = [hist EXCEPT !.pure = FALSE]
    /\ UNCHANGED <<pc, wop, closing, ret_value, tick_num, mdf_idx,
                   mdf_idx_entries_used, dl, mv_alloc, i, num_entries,
                   idx_entries_added, nfail>>
    /\ UNCHANGED shadow_vars
    /\ UNCHANGED <<wlog, alloc_log, released, pub, hdr_pub_idx, ci_pre,
                   last_eot_hdr>>
    /\ UNCHANGED <<reader_vars, other_vars>>

(***************************************************************************)
(* H5F_vfd_swmr_writer_end_of_tick, steps 1 to 6 up to the sort at the     *)
(* head of H5F_update_vfd_swmr_metadata_file.                              *)
(***************************************************************************)
H5F_vfd_swmr_writer_end_of_tick ==
    /\ pc = "idle" /\ tick_num < MaxTick
    /\ wop' = "eot"
    /\ wlog' = <<>> /\ alloc_log' = <<>> /\ released' = <<>>
    /\ \/ \* H5D_flush_all, H5MF_free_aggrs, H5AC_flush, H5FD_truncate or the
          \* allocation of the index fails
          /\ EotFail
          /\ UNCHANGED <<mdf_idx, mdf_idx_entries_used, i, num_entries,
                         idx_entries_added, ci_pre>>
       \/ LET create == (tick_num = 1)
              idx0 == IF create THEN H5F__vfd_swmr_writer__create_index
                      ELSE mdf_idx
              used0 == IF create THEN 0 ELSE mdf_idx_entries_used
              res == H5PB_vfd_swmr__update_index(idx0, used0, tl)
              n == used0 + res.added
              sorted == HDqsort(res.index, n)
              first == NextDirty(sorted, 1, n)
          IN  /\ ci_pre' = IF create
                           THEN [called |-> TRUE, idx_null |-> (mdf_idx = <<>>),
                                 len |-> Len(mdf_idx),
                                 used |-> mdf_idx_entries_used]
                           ELSE ci_pre
              /\ \/ \* H5PB_vfd_swmr__update_index fails
                    /\ \/ EotFail
                       \/ /\ UpdateIndexImpossible(idx0, used0, tl)
                          /\ pc' = "idle" /\ ret_value' = "FAIL"
                          /\ UNCHANGED nfail
                    /\ mdf_idx' = idx0
                    /\ mdf_idx_entries_used' = used0
                    /\ UNCHANGED <<i, num_entries, idx_entries_added>>
                 \/ /\ ~UpdateIndexImpossible(idx0, used0, tl)
                    /\ mdf_idx' = sorted
                    /\ mdf_idx_entries_used' = used0
                    /\ idx_entries_added' = res.added
                    /\ num_entries' = n
                    /\ i' = first
                    /\ pc' = IF first > n THEN NextPhase("eot", "entries")
                             ELSE "entries"
                    /\ UNCHANGED <<ret_value, nfail>>
    /\ UNCHANGED <<closing, tick_num, dl, mv_alloc, tl>>
    /\ UNCHANGED shadow_vars
    /\ UNCHANGED <<pub, hdr_pub_idx, last_eot_hdr, hist>>
    /\ UNCHANGED <<reader_vars, other_vars>>

(***************************************************************************)
(* H5F_update_vfd_swmr_metadata_file: one turn of the entry loop for the   *)
(* next entry whose entry_ptr is non-null.                                 *)
(***************************************************************************)
UpdateEntry ==
    /\ pc = "entries" /\ wop = "eot"
    /\ LET e == mdf_idx[i]
           dl_entry == [hdf5_page_offset |-> e.hdf5_page_offset,
                        md_file_page_offset |-> e.md_file_page_offset,
                        length |-> e.length,
                        tick_num |-> tick_num]
           dl1 == IF e.md_file_page_offset # 0
                  THEN DlPrepend(dl_entry, dl) ELSE dl
       IN  \/ \* H5FL_CALLOC of the delayed entry fails
              /\ e.md_file_page_offset # 0
              /\ OpFail
              /\ UNCHANGED <<dl, mv_alloc, mdf_idx, md_pages, wlog, alloc_log, i>>
           \/ \* H5MV_alloc returns HADDR_UNDEF
              /\ OpFail
              /\ dl' = dl1
              /\ UNCHANGED <<mv_alloc, mdf_idx, md_pages, wlog, alloc_log, i>>
           \/ \E md_addr \in H5MV_alloc(mv_alloc, e.length) :
                LET off == md_addr \div fs_page_size
                    e1 == [e EXCEPT !.md_file_page_offset = off,
                                    !.chksum = H5_checksum_metadata(e.entry_ptr)]
                    e2 == [e1 EXCEPT !.entry_ptr = NULL]
                    done == [mdf_idx EXCEPT ![i] = e2]
                    next == NextDirty(done, i + 1, num_entries)
                IN  /\ dl' = dl1
                    /\ mv_alloc' = mv_alloc \cup {off}
                    /\ alloc_log' = Append(alloc_log,
                          [new |-> off, old |-> e.md_file_page_offset,
                           inuse |-> InUse(mdf_idx, num_entries, dl1)])
                    /\ \/ \* HDlseek or HDwrite of the entry fails
                          /\ OpFail
                          /\ mdf_idx' = [mdf_idx EXCEPT ![i] = e1]
                          /\ UNCHANGED <<md_pages, wlog, i>>
                       \/ /\ mdf_idx' = done
                          /\ md_pages' = [md_pages EXCEPT ![off] = e.entry_ptr]
                          /\ wlog' = Append(wlog, "entry")
                          /\ i' = next
                          /\ pc' = IF next > num_entries
                                   THEN NextPhase("eot", "entries")
                                   ELSE "entries"
                          /\ UNCHANGED <<ret_value, nfail>>
    /\ UNCHANGED <<wop, closing, tick_num, mdf_idx_entries_used, tl,
                   num_entries, idx_entries_added>>
    /\ UNCHANGED <<md_hdr, md_idx>>
    /\ UNCHANGED <<released, pub, hdr_pub_idx, ci_pre, last_eot_hdr, hist>>
    /\ UNCHANGED <<reader_vars, other_vars>>

(***************************************************************************)
(* H5F_update_vfd_swmr_metadata_file: the release walk over the delayed    *)
(* list, then steps 7 to 9 of H5F_vfd_swmr_writer_end_of_tick.             *)
(***************************************************************************)
ReleaseAndAdvance ==
    /\ pc = "release" /\ wop = "eot"
    /\ LET kmax == NumExpired(dl, tick_num)
           used2 == mdf_idx_entries_used + idx_entries_added
           empty == [p \in Pages |-> NULL]
           drained == H5PB_vfd_swmr__release_delayed_writes(dwl, tick_num)
       IN  \/ \* H5MV_free fails after k entries have been released
              \E k \in 0..(kmax - 1) :
                /\ OpFail
                /\ dl' = DropTail(dl, k)
                /\ mv_alloc' = FreeAll(mv_alloc, dl, k)
                /\ released' = ReleaseLog(dl, k, mv_alloc, mdf_idx,
                                          num_entries, tick_num)
                /\ UNCHANGED <<mdf_idx_entries_used, tl, tick_num, pub, hist,
                               dwl>>
           \/ /\ dl' = DropTail(dl, kmax)
              /\ mv_alloc' = FreeAll(mv_alloc, dl, kmax)
              /\ released' = ReleaseLog(dl, kmax, mv_alloc, mdf_idx,
                                        num_entries, tick_num)
              /\ mdf_idx_entries_used' = used2
              /\ \/ \* H5PB_vfd_swmr__release_tick_list fails
                    /\ OpFail
                    /\ hist' = [hist EXCEPT !.upd = tick_num]
                    /\ UNCHANGED <<tl, tick_num, pub, dwl>>
                 \/ \* H5PB_vfd_swmr__release_delayed_writes or the clock fails
                    /\ OpFail
                    /\ tl' = empty
                    /\ dwl' \in {dwl, drained}
                    /\ hist' = [hist EXCEPT !.upd = tick_num]
                    /\ UNCHANGED <<tick_num, pub>>
                 \/ \* H5PB_vfd_swmr__set_tick fails after the increment
                    /\ OpFail
                    /\ tl' = empty
                    /\ dwl' = drained
                    /\ tick_num' = tick_num + 1
                    /\ hist' = [hist EXCEPT !.upd = tick_num]
                    /\ UNCHANGED pub
                 \/ /\ tl' = empty
                    /\ dwl' = drained
                    /\ tick_num' = tick_num + 1
                    /\ pc' = "idle"
                    /\ ret_value' = "SUCCEED"
                    /\ pub' = [hdr |-> md_hdr, idx |-> md_idx]
                    /\ hist' = [hist EXCEPT !.eots = @ + 1, !.upd = tick_num]
                    /\ UNCHANGED nfail
    /\ UNCHANGED <<wop, closing, mdf_idx, i, num_entries, idx_entries_added>>
    /\ UNCHANGED shadow_vars
    /\ UNCHANGED <<wlog, alloc_log, hdr_pub_idx, ci_pre, last_eot_hdr>>
    /\ UNCHANGED <<reader_vars, dw_vars, eotq_vars, re_vars, sch_vars, aux_vars,
                   mdf_vars,
                   pfc_vars>>

(***************************************************************************)
(* H5F_vfd_swmr_close_or_flush.                                            *)
(***************************************************************************)
H5F_vfd_swmr_close_or_flush(c) ==
    /\ pc = "idle"
    /\ tick_num + (IF c THEN 1 ELSE 2) <= MaxTick
    /\ wop' = IF c THEN "close" ELSE "flush"
    /\ closing' = c
    /\ pc' = close_or_flush_phases[1]
    /\ num_entries' = 0
    /\ wlog' = <<>>
    /\ hist' = [hist EXCEPT !.pure = FALSE]
    /\ UNCHANGED <<ret_value, tick_num, mdf_idx, mdf_idx_entries_used, dl,
                   mv_alloc, tl, i, idx_entries_added, nfail>>
    /\ UNCHANGED shadow_vars
    /\ UNCHANGED <<alloc_log, released, pub, hdr_pub_idx, ci_pre, last_eot_hdr>>
    /\ UNCHANGED <<reader_vars, other_vars>>

\* the part of H5F_vfd_swmr_close_or_flush behind the two frame writes
CloseOrFlush_Finish ==
    /\ pc = "fin" /\ wop \in {"close", "flush"}
    /\ IF closing
       THEN \/ \* HDclose fails, line 378
               /\ OpFail
               /\ tick_num' = tick_num + 1
               /\ UNCHANGED <<dl, mv_alloc, pub, md_file>>
            \/ \* HDunlink fails, line 384
               /\ OpFail
               /\ tick_num' = tick_num + 1
               /\ md_file' = [closed |-> TRUE, unlink_called |-> TRUE,
                              unlinked |-> FALSE]
               /\ UNCHANGED <<dl, mv_alloc, pub>>
            \/ \* H5MV_close fails, line 390
               /\ OpFail
               /\ tick_num' = tick_num + 1
               /\ md_file' = [closed |-> TRUE, unlink_called |-> TRUE,
                              unlinked |-> TRUE]
               /\ UNCHANGED <<dl, mv_alloc, pub>>
            \/ /\ tick_num' = tick_num + 1
               /\ md_file' = [closed |-> TRUE, unlink_called |-> TRUE,
                              unlinked |-> TRUE]
               /\ dl' = <<>>
               /\ mv_alloc' = {}
               /\ pc' = "closed"
               /\ ret_value' = "SUCCEED"
               /\ pub' = [hdr |-> md_hdr, idx |-> md_idx]
               /\ UNCHANGED nfail
       ELSE \/ \* the clock fails: H5F__vfd_swmr_update_end_of_tick_and_tick_num
               \* returns before its own increment
               /\ OpFail
               /\ tick_num' = tick_num + 1
               /\ UNCHANGED <<dl, mv_alloc, pub, md_file>>
            \/ \* H5PB_vfd_swmr__set_tick fails after the second increment
               /\ OpFail
               /\ tick_num' = tick_num + 2
               /\ UNCHANGED <<dl, mv_alloc, pub, md_file>>
            \/ /\ tick_num' = tick_num + 2
               /\ pc' = "idle"
               /\ ret_value' = "SUCCEED"
               /\ pub' = [hdr |-> md_hdr, idx |-> md_idx]
               /\ UNCHANGED <<dl, mv_alloc, nfail, md_file>>
    /\ UNCHANGED <<wop, closing, mdf_idx, mdf_idx_entries_used, tl, i,
                   num_entries, idx_entries_added>>
    /\ UNCHANGED shadow_vars
    /\ UNCHANGED <<wlog, alloc_log, released, hdr_pub_idx, ci_pre,
                   last_eot_hdr, hist>>
    /\ UNCHANGED <<reader_vars, dw_vars, eotq_vars, re_vars, sch_vars, aux_vars,
                   pb_vars, pfc_vars>>

(***************************************************************************)
(* A reader process polling the shadow file: header frame first, index     *)
(* frame second.                                                           *)
(***************************************************************************)
Reader_ReadHdr ==
    /\ wop # "none"
    /\ rd_pc \in {"idle", "done"}
    /\ rd_pc' = "hdr"
    /\ rd_hdr' = md_hdr
    /\ rd_pub_idx' = hdr_pub_idx
    /\ rd_idx' = ZeroIdx
    /\ UNCHANGED <<writer_vars, shadow_vars, hist_vars, other_vars>>

Reader_ReadIdx ==
    /\ rd_pc = "hdr"
    /\ rd_pc' = "done"
    /\ rd_idx' = md_idx
    /\ UNCHANGED <<rd_hdr, rd_pub_idx>>
    /\ UNCHANGED <<writer_vars, shadow_vars, hist_vars, other_vars>>

(***************************************************************************)
(* Specifications.                                                         *)
(***************************************************************************)
WriterNext ==
    \/ \E file_create \in BOOLEAN : H5F_vfd_swmr_init(file_create)
    \/ Init_Finish
    \/ H5F__vfd_swmr_construct_write_md_hdr
    \/ H5F__vfd_swmr_construct_write_md_idx
    \/ \E p \in Pages, img \in Images : DirtyPage(p, img)
    \/ H5F_vfd_swmr_writer_end_of_tick
    \/ UpdateEntry
    \/ ReleaseAndAdvance
    \/ \E c \in BOOLEAN : H5F_vfd_swmr_close_or_flush(c)
    \/ CloseOrFlush_Finish

Next == WriterNext

Spec == Init /\ [][Next]_vars

\* the writer without failing collaborators, and a reader polling the shadow file
InitRW ==
    /\ pc = "closed" /\ wop = "none" /\ closing = FALSE /\ ret_value = "none"
    /\ tick_num = 0
    /\ mdf_idx = <<>> /\ mdf_idx_entries_used = 0
    /\ dl = <<>> /\ mv_alloc = {}
    /\ md_hdr = ZeroHdr /\ md_idx = ZeroIdx
    /\ md_pages = [x \in Ext |-> NULL]
    /\ tl = [p \in Pages |-> NULL]
    /\ i = 1 /\ num_entries = 0 /\ idx_entries_added = 0
    /\ nfail = MaxFail
    /\ wlog = <<>> /\ alloc_log = <<>> /\ released = <<>>
    /\ pub = [hdr |-> ZeroHdr, idx |-> ZeroIdx]
    /\ hdr_pub_idx = ZeroIdx
    /\ ci_pre = [called |-> FALSE, idx_null |-> TRUE, len |-> 0, used |-> 0]
    /\ last_eot_hdr = 0
    /\ hist = [create |-> FALSE, pure |-> TRUE, eots |-> 0, upd |-> 0]
    /\ rd_pc = "idle" /\ rd_hdr = ZeroHdr /\ rd_idx = ZeroIdx
    /\ rd_pub_idx = ZeroIdx
    /\ OtherInit

NextRW ==
    \/ WriterNext
    \/ Reader_ReadHdr
    \/ Reader_ReadIdx

SpecRW == InitRW /\ [][NextRW]_vars

(***************************************************************************)
(* H5F_vfd_swmr_writer__delay_write on any sorted, duplicate-free index.   *)
(***************************************************************************)
DwPages == 1..DwMaxPage
DwFlushes == 0..DwMaxFlush

\* the sorted, duplicate-free arrays of used entries
DwUsedEntries ==
    UNION {{[k \in 1..Cardinality(S) |-> DwEntry(SetToSeq(S)[k], f[k])] :
               f \in [1..Cardinality(S) -> DwFlushes]} : S \in SUBSET DwPages}

H5F_vfd_swmr_writer__delay_write ==
    /\ dw_pc = "ready"
    /\ LET probe == DwSearch(mdf_idx, dw_page, 0,
                             DwTop(mdf_idx, mdf_idx_entries_used))
           delay_write_until == DwValue(mdf_idx, probe, tick_num)
       IN  /\ dw_ie' = probe + 1
           /\ dw_until' = delay_write_until
           /\ IF DwOutOfRange(delay_write_until, tick_num)
              THEN dw_ret' = "FAIL" /\ UNCHANGED dw_out
              ELSE dw_ret' = "SUCCEED" /\ dw_out' = delay_write_until
    /\ dw_pc' = "done"
    /\ UNCHANGED dw_page
    /\ UNCHANGED <<writer_vars, shadow_vars, hist_vars, reader_vars, eotq_vars,
                   re_vars, ext_vars>>

\* the writer between two operations, with any index, tick and argument; the
\* array has one slot more than the used entries, and no index at all is
\* possible at tick 1
InitDW ==
    /\ pc = "idle" /\ wop = "none" /\ closing = FALSE /\ ret_value = "none"
    /\ tick_num \in 1..DwMaxTick
    /\ \/ /\ tick_num = 1 /\ mdf_idx = <<>> /\ mdf_idx_entries_used = 0
       \/ \E used \in DwUsedEntries, g \in DwPages :
             /\ mdf_idx = Append(used, DwEntry(g, 0))
             /\ mdf_idx_entries_used = Len(used)
    /\ dl = <<>> /\ mv_alloc = {}
    /\ md_hdr = ZeroHdr /\ md_idx = ZeroIdx
    /\ md_pages = [x \in Ext |-> NULL]
    /\ tl = [p \in Pages |-> NULL]
    /\ i = 1 /\ num_entries = 0 /\ idx_entries_added = 0
    /\ nfail = 0
    /\ wlog = <<>> /\ alloc_log = <<>> /\ released = <<>>
    /\ pub = [hdr |-> ZeroHdr, idx |-> ZeroIdx]
    /\ hdr_pub_idx = ZeroIdx
    /\ ci_pre = [called |-> FALSE, idx_null |-> TRUE, len |-> 0, used |-> 0]
    /\ last_eot_hdr = 0
    /\ hist = [create |-> FALSE, pure |-> TRUE, eots |-> 0, upd |-> 0]
    /\ rd_pc = "idle" /\ rd_hdr = ZeroHdr /\ rd_idx = ZeroIdx
    /\ rd_pub_idx = ZeroIdx
    /\ dw_pc = "ready" /\ dw_page \in 0..(DwMaxPage + 1)
    /\ dw_ie = 0 /\ dw_until = 0 /\ dw_out = DW_UNSET /\ dw_ret = "none"
    /\ EotqEmpty /\ ReOff /\ ExtOff

NextDW == H5F_vfd_swmr_writer__delay_write

SpecDW == InitDW /\ [][NextDW]_vars

(***************************************************************************)
(* The EOT queue: a doubly linked list of entries between                  *)
(* vfd_swmr_eot_queue_head_g and vfd_swmr_eot_queue_tail_g.  The list      *)
(* macros work on a record q of the entries e, head, tail and a flag ub    *)
(* that is set when a macro stores through a NULL pointer.                 *)
(***************************************************************************)
\* ptr->next = v and ptr->prev = v
EotSetNext(q, ptr, v) ==
    IF ptr = NULL THEN [q EXCEPT !.ub = TRUE]
    ELSE [q EXCEPT !.e[ptr].next = v]

EotSetPrev(q, ptr, v) ==
    IF ptr = NULL THEN [q EXCEPT !.ub = TRUE]
    ELSE [q EXCEPT !.e[ptr].prev = v]

H5F__LL_REMOVE(q, entry_ptr) ==
    LET q1 == IF q.head = entry_ptr
              THEN LET h == q.e[entry_ptr].next
                       qa == [q EXCEPT !.head = h]
                   IN  IF h # NULL THEN EotSetPrev(qa, h, NULL) ELSE qa
              ELSE EotSetNext(q, q.e[entry_ptr].prev, q.e[entry_ptr].next)
        q2 == IF q1.tail = entry_ptr
              THEN LET t == q1.e[entry_ptr].prev
                       qb == [q1 EXCEPT !.tail = t]
                   IN  IF t # NULL THEN EotSetNext(qb, t, NULL) ELSE qb
              ELSE EotSetPrev(q1, q1.e[entry_ptr].next, q1.e[entry_ptr].prev)
    IN  EotSetPrev(EotSetNext(q2, entry_ptr, NULL), entry_ptr, NULL)

H5F__LL_APPEND(q, entry_ptr) ==
    IF q.head = NULL
    THEN [q EXCEPT !.head = entry_ptr, !.tail = entry_ptr]
    ELSE LET q1 == EotSetNext(q, q.tail, entry_ptr)
             q2 == EotSetPrev(q1, entry_ptr, q1.tail)
         IN  [q2 EXCEPT !.tail = entry_ptr]

H5F__LL_PREPEND(q, entry_ptr) ==
    IF q.head = NULL
    THEN [q EXCEPT !.head = entry_ptr, !.tail = entry_ptr]
    ELSE LET q1 == EotSetPrev(q, q.head, entry_ptr)
             q2 == EotSetNext(q1, entry_ptr, q1.head)
         IN  [q2 EXCEPT !.head = entry_ptr]

H5F_EOT_INSERT_AFTER(q, entry_ptr, prec_ptr) ==
    IF prec_ptr = NULL THEN H5F__LL_PREPEND(q, entry_ptr)
    ELSE IF q.e[prec_ptr].prev = NULL THEN H5F__LL_APPEND(q, entry_ptr)
    ELSE LET q1 == EotSetPrev(q, entry_ptr, prec_ptr)
             q2 == EotSetNext(q1, entry_ptr, q1.e[prec_ptr].next)
             q3 == EotSetPrev(q2, q2.e[prec_ptr].next, entry_ptr)
         IN  EotSetNext(q3, prec_ptr, entry_ptr)

\* the loop of H5F_vfd_swmr_insert_entry_eot that looks for the predecessor,
\* from prec_ptr towards the head; steps bounds the walk
RECURSIVE EotPredecessor(_, _, _, _)
EotPredecessor(e, prec_ptr, end_of_tick, steps) ==
    IF prec_ptr = NULL \/ steps = 0 THEN prec_ptr
    ELSE IF e[prec_ptr].end_of_tick > end_of_tick
    THEN EotPredecessor(e, e[prec_ptr].prev, end_of_tick, steps - 1)
    ELSE prec_ptr

\* the loop of H5F_vfd_swmr_remove_entry_eot that looks for the entry of
\* file f, from curr towards the tail
RECURSIVE EotFind(_, _, _, _)
EotFind(e, curr, f, steps) ==
    IF curr = NULL \/ steps = 0 THEN NULL
    ELSE IF e[curr].vfd_swmr_file = f THEN curr
    ELSE EotFind(e, e[curr].next, f, steps - 1)

\* the entries met from ptr by following next
RECURSIVE EotWalk(_, _, _)
EotWalk(e, ptr, steps) ==
    IF ptr = NULL \/ steps = 0 THEN <<>>
    ELSE <<ptr>> \o EotWalk(e, e[ptr].next, steps - 1)

EotQ ==
    [e |-> eot_entry, head |-> vfd_swmr_eot_queue_head_g,
     tail |-> vfd_swmr_eot_queue_tail_g, ub |-> FALSE]

\* the state after a call that left the queue as q; a store through NULL is
\* undefined: the process is killed, or it goes on without the store
EotOutcome(q) ==
    /\ \/ ~q.ub /\ UNCHANGED eot_ub
       \/ q.ub /\ eot_ub' \in {"crashed", "continued"}
    /\ IF eot_ub' = "crashed"
       THEN UNCHANGED <<eot_entry, vfd_swmr_eot_queue_head_g,
                        vfd_swmr_eot_queue_tail_g, vfd_swmr_writer_g,
                        end_of_tick_g>>
       ELSE /\ eot_entry' = q.e
            /\ vfd_swmr_eot_queue_head_g' = q.head
            /\ vfd_swmr_eot_queue_tail_g' = q.tail
            /\ IF q.head # NULL
               THEN /\ vfd_swmr_writer_g' = q.e[q.head].vfd_swmr_writer
                    /\ end_of_tick_g' = q.e[q.head].end_of_tick
               ELSE /\ vfd_swmr_writer_g' = FALSE
                    /\ UNCHANGED end_of_tick_g

\* the queue after H5F_vfd_swmr_remove_entry_eot(f)
EotRemoved(q, f) ==
    LET curr == EotFind(q.e, q.head, f, EotMaxEntries)
    IN  IF curr = NULL THEN q
        ELSE LET q1 == H5F__LL_REMOVE(q, curr)
             IN  [q1 EXCEPT !.e[curr] = EotFree]

\* the queue after H5F_vfd_swmr_insert_entry_eot(f) with storage entry_ptr
EotInserted(q, entry_ptr, f, writer, tick, end_of_tick) ==
    LET q1 == [q EXCEPT !.e[entry_ptr] =
                  [used |-> TRUE, vfd_swmr_writer |-> writer,
                   tick_num |-> tick,
                   end_of_tick |-> end_of_tick, vfd_swmr_file |-> f,
                   next |-> NULL, prev |-> NULL]]
        prec_ptr == EotPredecessor(q1.e, q1.tail, end_of_tick, EotMaxEntries)
    IN  H5F_EOT_INSERT_AFTER(q1, entry_ptr, prec_ptr)

\* H5FL_CALLOC: the storage the free list hands out
EotCalloc(e) == CHOOSE n \in EotIds : ~e[n].used /\ \A m \in EotIds : m < n => e[m].used

H5F_vfd_swmr_remove_entry_eot(f) ==
    /\ eot_ub # "crashed"
    /\ EotOutcome(EotRemoved(EotQ, f))
    /\ UNCHANGED <<writer_vars, shadow_vars, hist_vars, reader_vars, dw_vars, ext_vars,
                   re_vars>>

H5F_vfd_swmr_insert_entry_eot(f, writer, end_of_tick) ==
    /\ eot_ub # "crashed"
    /\ \E n \in EotIds : ~eot_entry[n].used
    /\ EotOutcome(EotInserted(EotQ, EotCalloc(eot_entry), f, writer, tick_num,
                              end_of_tick))
    /\ UNCHANGED <<writer_vars, shadow_vars, hist_vars, reader_vars, dw_vars, ext_vars,
                   re_vars>>

\* files are opened and closed and their entries rescheduled in any order
NextEOT ==
    \/ \E f \in EotFiles, w \in BOOLEAN, d \in EotDeadlines :
          H5F_vfd_swmr_insert_entry_eot(f, w, d)
    \/ \E f \in EotFiles : H5F_vfd_swmr_remove_entry_eot(f)

SpecEOT == Init /\ [][NextEOT]_vars

(***************************************************************************)
(* H5F_vfd_swmr_reader_end_of_tick.  In SpecRD the process has opened the  *)
(* file as a VFD SWMR reader: tick_num, mdf_idx and mdf_idx_entries_used   *)
(* are the fields of its f->shared, md_hdr and md_idx the frames of the    *)
(* shadow file, which the writer process replaces at any time.             *)
(***************************************************************************)
RdFile == 1
RdPages == 1..RdMaxPage
RdOffsets == 1..RdMaxOff

RdEntry(page, off) ==
    [hdf5_page_offset |-> page, md_file_page_offset |-> off,
     length |-> fs_page_size, chksum |-> 0, entry_ptr |-> NULL]

\* the indexes a writer can publish: sorted by hdf5_page_offset, no page twice
RdIndexes ==
    UNION {{[k \in 1..Cardinality(S) |-> RdEntry(SetToSeq(S)[k], g[k])] :
               g \in [1..Cardinality(S) -> RdOffsets]} :
           S \in {T \in SUBSET RdPages : Cardinality(T) <= entries_in_index}}

\* an entry of an index frame as the reader VFD hands it out
DecodeEntry(x) ==
    [hdf5_page_offset |-> x.hdf5_page_offset,
     md_file_page_offset |-> x.md_file_page_offset,
     length |-> x.length, chksum |-> x.chksum, entry_ptr |-> NULL]

\* H5FD_vfd_swmr_get_tick_and_idx(lf, FALSE, ..): the entries of the frame are
\* copied into the front of the array
LoadIndex(index, frame) ==
    [k \in 1..Len(index) |->
        IF k <= frame.num_entries THEN DecodeEntry(frame.entries[k])
        ELSE index[k]]

ReCall(fn, arg, tick) == [fn |-> fn, arg |-> arg, tick |-> tick]

\* a test that takes every header for a new tick
ReTickChanged_always(tmp, tick) == TRUE

\* line 1186: the header names another tick than the file
ReTickChanged(tmp, tick) == tmp # tick

\* a test that takes every page of both indexes for altered
RePageAltered_always(old, new) == TRUE

\* lines 1266-1267: the page has moved in the shadow file
RePageAltered(old, new) == old.md_file_page_offset # new.md_file_page_offset

\* passes that go to the metadata cache first
ReFnOfPass_cache_first(p) ==
    IF p = 0 THEN "H5C_evict_or_refresh_all_entries_in_page"
    ELSE "H5PB_remove_entry"

\* lines 1272, 1309 and 1368: the callee of a pass
ReFnOfPass(p) ==
    IF p = 0 THEN "H5PB_remove_entry"
    ELSE "H5C_evict_or_refresh_all_entries_in_page"

\* the writer process publishes the next tick
Shadow_Publish(index) ==
    /\ re_pc # "off"
    /\ md_hdr.tick_num < RdMaxTick
    /\ md_idx' = construct_md_idx(md_hdr.tick_num + 1, Len(index), index)
    /\ md_hdr' = construct_md_hdr(md_hdr.tick_num + 1, Len(index))
    /\ UNCHANGED md_pages
    /\ UNCHANGED <<writer_vars, hist_vars, reader_vars, other_vars>>

\* HGOTO_ERROR in H5F_vfd_swmr_reader_end_of_tick
ReFail ==
    /\ re_ret' = "FAIL"
    /\ re_pc' = "idle"

\* line 1175: the tick of the header; lines 1186 and 1413: nothing else is
\* done when it is the tick of the file
Re_GetTick ==
    /\ re_pc = "idle"
    /\ re_pre' = ReFields
    /\ re_calls' = <<>>
    /\ \/ /\ ReFail
          /\ UNCHANGED tmp_tick_num
       \/ /\ tmp_tick_num' = md_hdr.tick_num
          /\ re_ret' = "none"
          /\ re_pc' = IF ReTickChanged(tmp_tick_num', tick_num)
                       THEN "swap" ELSE "requeue"
    /\ UNCHANGED <<old_mdf_idx, old_mdf_idx_entries_used, pass, re_i, re_j,
                   shared_end_of_tick>>
    /\ UNCHANGED <<writer_vars, shadow_vars, hist_vars, reader_vars, dw_vars, ext_vars,
                   eotq_vars>>

\* lines 1188-1207: swap the indexes, allocate the current one if it is NULL
Re_Swap ==
    /\ re_pc = "swap"
    /\ old_mdf_idx' = mdf_idx
    /\ old_mdf_idx_entries_used' = mdf_idx_entries_used
    /\ IF old_mdf_idx = <<>>
       THEN \/ /\ ReFail
               /\ mdf_idx' = old_mdf_idx
               /\ mdf_idx_entries_used' = old_mdf_idx_entries_used
            \/ /\ mdf_idx' = H5F__vfd_swmr_writer__create_index
               /\ mdf_idx_entries_used' = 0
               /\ re_pc' = "load"
               /\ UNCHANGED re_ret
       ELSE /\ mdf_idx' = old_mdf_idx
            /\ mdf_idx_entries_used' = old_mdf_idx_entries_used
            /\ re_pc' = "load"
            /\ UNCHANGED re_ret
    /\ UNCHANGED <<tmp_tick_num, pass, re_i, re_j, shared_end_of_tick, re_calls,
                   re_pre>>
    /\ UNCHANGED <<pc, wop, closing, ret_value, tick_num, dl, mv_alloc, tl, i,
                   num_entries, idx_entries_added, nfail>>
    /\ UNCHANGED <<shadow_vars, hist_vars, reader_vars, dw_vars, ext_vars, eotq_vars>>

\* lines 1210-1226 and 1243: load the published index into the current one
Re_Load ==
    /\ re_pc = "load"
    /\ \/ /\ ReFail
          /\ UNCHANGED <<mdf_idx, mdf_idx_entries_used, pass>>
       \/ /\ md_idx.num_entries <= Len(mdf_idx)
          /\ mdf_idx' = LoadIndex(mdf_idx, md_idx)
          /\ mdf_idx_entries_used' = md_idx.num_entries
          /\ pass' = 0
          /\ re_pc' = "walk"
          /\ UNCHANGED re_ret
    /\ re_i' = 0 /\ re_j' = 0
    /\ UNCHANGED <<tmp_tick_num, old_mdf_idx, old_mdf_idx_entries_used,
                   shared_end_of_tick, re_calls, re_pre>>
    /\ UNCHANGED <<pc, wop, closing, ret_value, tick_num, dl, mv_alloc, tl, i,
                   num_entries, idx_entries_added, nfail>>
    /\ UNCHANGED <<shadow_vars, hist_vars, reader_vars, dw_vars, ext_vars, eotq_vars>>

\* the call of the current pass for a page: lines 1272-1292, 1309-1328 and
\* 1368-1387; either call can fail
ReEvict(page) ==
    \/ /\ ReFail
       /\ UNCHANGED re_calls
    \/ /\ re_calls' = Append(re_calls,
              IF ReFnOfPass(pass) = "H5PB_remove_entry"
              THEN ReCall(ReFnOfPass(pass), page * fs_page_size, 0)
              ELSE ReCall(ReFnOfPass(pass), page, tmp_tick_num))
       /\ UNCHANGED <<re_pc, re_ret>>

\* one iteration of the loops of lines 1260-1390, or the step to the next
\* pass at line 1392
Re_Walk ==
    /\ re_pc = "walk"
    /\ LET old == old_mdf_idx[re_i + 1]
           new == mdf_idx[re_j + 1]
       IN  IF re_i < old_mdf_idx_entries_used /\ re_j < mdf_idx_entries_used
           THEN IF old.hdf5_page_offset = new.hdf5_page_offset
                THEN /\ IF RePageAltered(old, new)
                        THEN ReEvict(new.hdf5_page_offset)
                        ELSE UNCHANGED <<re_calls, re_pc, re_ret>>
                     /\ re_i' = re_i + 1 /\ re_j' = re_j + 1
                     /\ UNCHANGED pass
                ELSE IF old.hdf5_page_offset < new.hdf5_page_offset
                THEN /\ ReEvict(old.hdf5_page_offset)
                     /\ re_i' = re_i + 1
                     /\ UNCHANGED <<re_j, pass>>
                ELSE /\ re_j' = re_j + 1
                     /\ UNCHANGED <<re_i, pass, re_calls, re_pc, re_ret>>
           ELSE IF re_i < old_mdf_idx_entries_used
           THEN /\ ReEvict(old.hdf5_page_offset)
                /\ re_i' = re_i + 1
                /\ UNCHANGED <<re_j, pass>>
           ELSE /\ pass' = pass + 1
                /\ re_i' = 0 /\ re_j' = 0
                /\ re_pc' = IF pass' <= 1 THEN "walk" ELSE "adopt"
                /\ UNCHANGED <<re_calls, re_ret>>
    /\ UNCHANGED <<tmp_tick_num, old_mdf_idx, old_mdf_idx_entries_used,
                   shared_end_of_tick, re_pre>>
    /\ UNCHANGED <<writer_vars, shadow_vars, hist_vars, reader_vars, dw_vars, ext_vars,
                   eotq_vars>>

\* lines 1405-1411: the tick of the header becomes the tick of the file, and
\* H5F__vfd_swmr_update_end_of_tick_and_tick_num moves the deadline
Re_Adopt ==
    /\ re_pc = "adopt"
    /\ tick_num' = tmp_tick_num
    /\ \/ /\ ReFail
          /\ UNCHANGED <<shared_end_of_tick, end_of_tick_g>>
       \/ /\ \E new_end_of_tick \in EotDeadlines :
                /\ new_end_of_tick >= shared_end_of_tick
                /\ shared_end_of_tick' = new_end_of_tick
                /\ end_of_tick_g' = new_end_of_tick
          /\ re_pc' = "requeue"
          /\ UNCHANGED re_ret
    /\ UNCHANGED <<tmp_tick_num, old_mdf_idx, old_mdf_idx_entries_used, pass,
                   re_i, re_j, re_calls, re_pre>>
    /\ UNCHANGED <<pc, wop, closing, ret_value, mdf_idx, mdf_idx_entries_used,
                   dl, mv_alloc, tl, i, num_entries, idx_entries_added, nfail>>
    /\ UNCHANGED <<eot_entry, vfd_swmr_eot_queue_head_g,
                   vfd_swmr_eot_queue_tail_g, vfd_swmr_writer_g, eot_ub>>
    /\ UNCHANGED <<shadow_vars, hist_vars, reader_vars, dw_vars, ext_vars>>

\* lines 1416-1421: the entry of the file leaves the EOT queue and a new one
\* is inserted
Re_Requeue ==
    /\ re_pc = "requeue"
    /\ eot_ub # "crashed"
    /\ LET q1 == EotRemoved(EotQ, RdFile)
       IN  EotOutcome(EotInserted(q1, EotCalloc(q1.e), RdFile, FALSE,
                                  tick_num, shared_end_of_tick))
    /\ re_calls' = re_calls \o
          <<ReCall("H5F_vfd_swmr_remove_entry_eot", RdFile, 0),
            ReCall("H5F_vfd_swmr_insert_entry_eot", RdFile, 0)>>
    /\ re_ret' = "SUCCEED"
    /\ re_pc' = "idle"
    /\ UNCHANGED <<tmp_tick_num, old_mdf_idx, old_mdf_idx_entries_used, pass,
                   re_i, re_j, shared_end_of_tick, re_pre>>
    /\ UNCHANGED <<writer_vars, shadow_vars, hist_vars, reader_vars, dw_vars, ext_vars>>

H5F_vfd_swmr_reader_end_of_tick ==
    \/ Re_GetTick
    \/ Re_Swap
    \/ Re_Load
    \/ Re_Walk
    \/ Re_Adopt
    \/ Re_Requeue

\* the state after H5F_vfd_swmr_init of a reader and the insertion of its
\* entry in the EOT queue: the index and tick of a first publication loaded
InitRD ==
    /\ pc = "closed" /\ wop = "none" /\ closing = FALSE /\ ret_value = "none"
    /\ tick_num = 1
    /\ \E index \in RdIndexes :
          /\ md_hdr = construct_md_hdr(1, Len(index))
          /\ md_idx = construct_md_idx(1, Len(index), index)
          /\ mdf_idx = LoadIndex(H5F__vfd_swmr_writer__create_index, md_idx)
          /\ mdf_idx_entries_used = Len(index)
    /\ dl = <<>> /\ mv_alloc = {}
    /\ md_pages = [x \in Ext |-> NULL]
    /\ tl = [p \in Pages |-> NULL]
    /\ i = 1 /\ num_entries = 0 /\ idx_entries_added = 0
    /\ nfail = 0
    /\ wlog = <<>> /\ alloc_log = <<>> /\ released = <<>>
    /\ pub = [hdr |-> ZeroHdr, idx |-> ZeroIdx]
    /\ hdr_pub_idx = ZeroIdx
    /\ ci_pre = [called |-> FALSE, idx_null |-> TRUE, len |-> 0, used |-> 0]
    /\ last_eot_hdr = 0
    /\ hist = [create |-> FALSE, pure |-> TRUE, eots |-> 0, upd |-> 0]
    /\ rd_pc = "idle" /\ rd_hdr = ZeroHdr /\ rd_idx = ZeroIdx
    /\ rd_pub_idx = ZeroIdx
    /\ DwOff
    /\ re_pc = "idle" /\ tmp_tick_num = 0
    /\ old_mdf_idx = <<>> /\ old_mdf_idx_entries_used = 0
    /\ pass = 0 /\ re_i = 0 /\ re_j = 0 /\ shared_end_of_tick = 1
    /\ re_calls = <<>> /\ re_ret = "none"
    /\ re_pre = ReFields
    /\ ExtOff
    /\ LET q == EotInserted([e |-> [n \in EotIds |-> EotFree], head |-> NULL,
                             tail |-> NULL, ub |-> FALSE],
                            1, RdFile, FALSE, tick_num, 1)
       IN  /\ eot_entry = q.e
           /\ vfd_swmr_eot_queue_head_g = q.head
           /\ vfd_swmr_eot_queue_tail_g = q.tail
           /\ vfd_swmr_writer_g = FALSE /\ end_of_tick_g = 1
           /\ eot_ub = "no"

NextRD ==
    \/ H5F_vfd_swmr_reader_end_of_tick
    \/ \E index \in RdIndexes : Shadow_Publish(index)

SpecRD == InitRD /\ [][NextRD]_vars

\* H5F_vfd_swmr_init of another writer process, lines 233-268: the shadow file
\* that an earlier writer left behind is opened (O_CREAT | O_RDWR opens the
\* file that exists) and gets the header and the empty index of tick 1.  Here
\* the earlier writer has reached its last tick and the reader has followed.
Shadow_Reopen ==
    /\ re_pc = "idle"
    /\ md_hdr.tick_num = RdMaxTick /\ tick_num = md_hdr.tick_num
    /\ md_hdr' = construct_md_hdr(1, 0)
    /\ md_idx' = construct_md_idx(1, 0, <<>>)
    /\ UNCHANGED md_pages
    /\ UNCHANGED <<writer_vars, hist_vars, reader_vars, other_vars>>

\* the indexes the writers publish here: one entry at most, of one of the
\* pages below the last
RdwIndexes ==
    {index \in RdIndexes :
        /\ Len(index) <= 1
        /\ \A k \in 1..Len(index) : index[k].hdf5_page_offset < RdMaxPage}

NextRDW ==
    \/ H5F_vfd_swmr_reader_end_of_tick
    \/ \E index \in RdwIndexes : Shadow_Publish(index)
    \/ Shadow_Reopen

\* the reader has opened a file whose index is empty
InitRDW == InitRD /\ md_idx.num_entries = 0

SpecRDW == InitRDW /\ [][NextRDW]_vars

(***************************************************************************)
(* The EOT scheduler: the files of the process, their entries in the EOT   *)
(* queue and the globals vfd_swmr_writer_g and end_of_tick_g.              *)
(***************************************************************************)
\* the queue after the entry of file f has been removed and inserted again
SchRequeued(f) ==
    LET q1 == EotRemoved(EotQ, f)
    IN  EotInserted(q1, EotCalloc(q1.e), f, sch_files[f].vfd_swmr_writer,
                    sch_files'[f].tick_num, sch_files'[f].end_of_tick)

\* a file is opened: H5F_vfd_swmr_init ends with
\* H5F__vfd_swmr_update_end_of_tick_and_tick_num, and the file's entry is
\* inserted in the EOT queue
Sch_Open(f, writer, new_end_of_tick) ==
    /\ ~sch_files[f].open
    /\ eot_ub # "crashed"
    /\ \E n \in EotIds : ~eot_entry[n].used
    /\ \E tick \in SchTicks :
          \* line 225: the writer starts at tick 1; lines 289-293: the reader
          \* starts at the tick of the header it read
          /\ writer => tick = 1
          /\ sch_files' = [sch_files EXCEPT ![f] =
                [open |-> TRUE, vfd_swmr_writer |-> writer, tick_num |-> tick,
                 end_of_tick |-> new_end_of_tick]]
          /\ EotOutcome(EotInserted(EotQ, EotCalloc(eot_entry), f, writer, tick,
                                    new_end_of_tick))
    /\ UNCHANGED <<writer_vars, shadow_vars, hist_vars, reader_vars, dw_vars,
                   re_vars, pb_vars, pfc_vars, mdf_vars, aux_vars>>

\* the end of H5F_vfd_swmr_writer_end_of_tick (lines 1017-1033) and of
\* H5F_vfd_swmr_reader_end_of_tick with a changed tick (lines 1405-1421)
\* some time after the deadline was last computed: the clock plus the
\* tick length is a later deadline
Sch_EndOfTick(f, new_end_of_tick) ==
    /\ sch_files[f].open
    /\ eot_ub # "crashed"
    /\ new_end_of_tick > sch_files[f].end_of_tick
    /\ \E tick \in SchTicks \cup {sch_files[f].tick_num + 1} :
          \* line 1632: the writer's tick is incremented; lines 1186 and 1405:
          \* the reader takes the tick of the header, which differs from its own
          /\ IF sch_files[f].vfd_swmr_writer
                THEN tick = sch_files[f].tick_num + 1
                ELSE tick # sch_files[f].tick_num
          /\ sch_files' = [sch_files EXCEPT ![f].tick_num = tick,
                                            ![f].end_of_tick = new_end_of_tick]
    /\ EotOutcome(SchRequeued(f))
    /\ UNCHANGED <<writer_vars, shadow_vars, hist_vars, reader_vars, dw_vars,
                   re_vars, pb_vars, pfc_vars, mdf_vars, aux_vars>>

\* H5F_vfd_swmr_reader_end_of_tick when the tick is unchanged: lines 1186 and
\* 1416-1421
Sch_ReaderSameTick(f) ==
    /\ sch_files[f].open /\ ~sch_files[f].vfd_swmr_writer
    /\ eot_ub # "crashed"
    /\ UNCHANGED sch_files
    /\ EotOutcome(SchRequeued(f))
    /\ UNCHANGED <<writer_vars, shadow_vars, hist_vars, reader_vars, dw_vars,
                   re_vars, pb_vars, pfc_vars, mdf_vars, aux_vars>>

\* the end of H5F_vfd_swmr_close_or_flush(f, FALSE): the increment of line
\* 371 and lines 407-414 with lines 1630-1633 and 1655-1658
Sch_Flush(f, new_end_of_tick) ==
    /\ sch_files[f].open /\ sch_files[f].vfd_swmr_writer
    /\ eot_ub # "crashed"
    /\ new_end_of_tick > sch_files[f].end_of_tick
    /\ sch_files' = [sch_files EXCEPT ![f].tick_num = sch_files[f].tick_num + 2,
                                      ![f].end_of_tick = new_end_of_tick]
    /\ end_of_tick_g' = new_end_of_tick
    /\ UNCHANGED <<eot_entry, vfd_swmr_eot_queue_head_g,
                   vfd_swmr_eot_queue_tail_g, vfd_swmr_writer_g, eot_ub>>
    /\ UNCHANGED <<writer_vars, shadow_vars, hist_vars, reader_vars, dw_vars,
                   re_vars, pb_vars, pfc_vars, mdf_vars, aux_vars>>

\* a file is closed: its entry leaves the EOT queue
Sch_Close(f) ==
    /\ sch_files[f].open
    /\ eot_ub # "crashed"
    /\ sch_files' = [sch_files EXCEPT ![f] = SchClosed]
    /\ EotOutcome(EotRemoved(EotQ, f))
    /\ UNCHANGED <<writer_vars, shadow_vars, hist_vars, reader_vars, dw_vars,
                   re_vars, pb_vars, pfc_vars, mdf_vars, aux_vars>>

NextSCH ==
    \/ \E f \in EotFiles, w \in BOOLEAN, d \in EotDeadlines : Sch_Open(f, w, d)
    \/ \E f \in EotFiles, d \in EotDeadlines : Sch_EndOfTick(f, d)
    \/ \E f \in EotFiles : Sch_ReaderSameTick(f)
    \/ \E f \in EotFiles, d \in EotDeadlines : Sch_Flush(f, d)
    \/ \E f \in EotFiles : Sch_Close(f)

SpecSCH == Init /\ [][NextSCH]_vars

(***************************************************************************)
(* H5F_vfd_swmr_writer__prep_for_flush_or_close and                        *)
(* H5F__vfd_swmr_writer__wait_a_tick.  The writer end of tick they call is *)
(* the one of the writer above, run step by step while pfc_pc = "eot".     *)
(***************************************************************************)
PfcTickLen == 2     \* vfd_swmr_config.tick_len, in units of sleeping time
PfcMaxDwl == 2      \* entries the delayed write list holds at most

\* the test of the while loop, line 796
PfcKeepWaiting_never(dwl_len) == FALSE

PfcKeepWaiting(dwl_len) == dwl_len > 0

\* the page buffer delays a write: the entry joins the delayed write list, in
\* front of the entries that are due earlier
H5PB_DelayWrite(until) ==
    /\ pfc_pc = "idle" /\ pc = "idle" /\ tick_num < MaxTick
    /\ Len(dwl) < PfcMaxDwl
    /\ until > tick_num /\ until <= tick_num + max_lag
    /\ \A k \in 1..Len(dwl) : dwl[k] <= until
    /\ dwl' = <<until>> \o dwl
    /\ UNCHANGED <<writer_vars, shadow_vars, hist_vars, reader_vars, dw_vars,
                   eotq_vars, re_vars, sch_vars, aux_vars, mdf_vars, pfc_vars>>

\* entry of H5F_vfd_swmr_writer__prep_for_flush_or_close, lines 776-785
H5F_vfd_swmr_writer__prep_for_flush_or_close ==
    /\ pfc_pc = "idle" /\ pc = "idle" /\ tick_num < MaxTick
    /\ wop \in {"init", "eot", "flush"} /\ ret_value # "FAIL"
    /\ pfc_pc' = "call"
    /\ pfc_ret' = "none"
    /\ req' = 0
    /\ pfc_hist' = [eots |-> 0, sleeps |-> 0, slept |-> 0, naps |-> 0]
    /\ UNCHANGED <<writer_vars, shadow_vars, hist_vars, reader_vars, dw_vars,
                   eotq_vars, re_vars, sch_vars, aux_vars, mdf_vars, pb_vars>>

\* the call of H5F_vfd_swmr_writer_end_of_tick at line 791 or line 2018
Pfc_CallEndOfTick ==
    /\ pfc_pc = "call"
    /\ pfc_pc' = "eot"
    /\ pfc_hist' = [pfc_hist EXCEPT !.eots = @ + 1]
    /\ ret_value' = "none"
    /\ UNCHANGED <<pc, wop, closing, tick_num, mdf_idx, mdf_idx_entries_used,
                   dl, mv_alloc, tl, i, num_entries, idx_entries_added, nfail>>
    /\ UNCHANGED <<shadow_vars, hist_vars, reader_vars, dw_vars, eotq_vars,
                   re_vars, sch_vars, aux_vars,
                   mdf_vars, pb_vars, pfc_ret, req>>

\* the steps of the end of tick that was called
Pfc_EndOfTick ==
    /\ pfc_pc = "eot"
    /\ \/ ret_value = "none" /\ H5F_vfd_swmr_writer_end_of_tick
       \/ wop = "eot" /\ UpdateEntry
       \/ wop = "eot" /\ H5F__vfd_swmr_construct_write_md_idx
       \/ wop = "eot" /\ H5F__vfd_swmr_construct_write_md_hdr
       \/ ReleaseAndAdvance

\* the end of tick has returned: lines 791-801 and 2018-2021
Pfc_EndOfTickReturned ==
    /\ pfc_pc = "eot" /\ pc = "idle" /\ ret_value # "none"
    /\ IF ret_value = "FAIL"
       THEN pfc_pc' = "done" /\ pfc_ret' = "FAIL" /\ UNCHANGED req
       ELSE IF PfcKeepWaiting(Len(dwl))
            THEN /\ pfc_pc' = "sleep"
                 /\ req' = PfcTickLen
                 /\ UNCHANGED pfc_ret
            ELSE pfc_pc' = "done" /\ pfc_ret' = "SUCCEED" /\ UNCHANGED req
    /\ pfc_hist' = [pfc_hist EXCEPT !.slept = 0]
    /\ UNCHANGED <<writer_vars, shadow_vars, hist_vars, reader_vars, dw_vars,
                   eotq_vars, re_vars, sch_vars, aux_vars, mdf_vars, pb_vars>>

\* HDnanosleep(&req, &rem), lines 2003-2010: it returns 0 when the time asked
\* for is over, or -1 with the time left in rem when it was interrupted
HDnanosleep ==
    /\ pfc_pc = "sleep"
    /\ \/ /\ pfc_pc' = "call"
          /\ req' = 0
          /\ pfc_hist' = [pfc_hist EXCEPT !.sleeps = @ + 1,
                                          !.slept = @ + req,
                                          !.naps = @ + 1]
       \/ \E rem \in 0..(req - 1) :
             /\ req' = rem
             /\ pfc_hist' = [pfc_hist EXCEPT !.slept = @ + (req - rem),
                                             !.naps = @ + 1]
             /\ UNCHANGED pfc_pc
    /\ UNCHANGED <<writer_vars, shadow_vars, hist_vars, reader_vars, dw_vars,
                   eotq_vars, re_vars, sch_vars, aux_vars,
                   mdf_vars, pb_vars, pfc_ret>>

\* the flush or close that called has gone on and finished
Pfc_CallerDone ==
    /\ pfc_pc = "done"
    /\ pfc_pc' = "idle"
    /\ UNCHANGED <<writer_vars, shadow_vars, hist_vars, reader_vars, dw_vars,
                   eotq_vars, re_vars, sch_vars, aux_vars, mdf_vars,
                   pb_vars, pfc_ret, req,
                   pfc_hist>>

NextPFC ==
    \/ pfc_pc = "idle" /\ H5F_vfd_swmr_init(TRUE)
    \/ \E p \in Pages, img \in Images : pfc_pc = "idle" /\ DirtyPage(p, img)
    \/ \E until \in 1..(MaxTick + max_lag) : H5PB_DelayWrite(until)
    \/ H5F_vfd_swmr_writer__prep_for_flush_or_close
    \/ Pfc_CallEndOfTick
    \/ Pfc_EndOfTick
    \/ Pfc_EndOfTickReturned
    \/ HDnanosleep
    \/ Pfc_CallerDone

SpecPFC == Init /\ [][NextPFC]_vars

(***************************************************************************)
(* The writer at tick 2 of a file that has more pages than Pages: the end  *)
(* of tick of tick 1 has put a page behind Pages into the index.  The      *)
(* pages of Pages can then ask for more index entries than the index has.  *)
(***************************************************************************)
CapPage == NPages + 1

CapEntry ==
    [hdf5_page_offset |-> CapPage, md_file_page_offset |-> md_pages_reserved,
     length |-> fs_page_size, chksum |-> H5_checksum_metadata(1),
     entry_ptr |-> NULL]

CapIndex ==
    [k \in 1..entries_in_index |-> IF k = 1 THEN CapEntry ELSE ZeroEntry]

InitCAP ==
    /\ pc = "idle" /\ wop = "eot" /\ closing = FALSE /\ ret_value = "SUCCEED"
    /\ tick_num = 2
    /\ mdf_idx = CapIndex /\ mdf_idx_entries_used = 1
    /\ dl = <<>>
    /\ mv_alloc = H5FD_MD_HEADER_OFF .. md_pages_reserved
    /\ md_hdr = construct_md_hdr(1, 1)
    /\ md_idx = construct_md_idx(1, 1, CapIndex)
    /\ md_pages = [x \in Ext |-> IF x = md_pages_reserved THEN 1 ELSE NULL]
    /\ tl = [p \in Pages |-> NULL]
    /\ i = 2 /\ num_entries = 1 /\ idx_entries_added = 1
    /\ nfail = 0
    /\ wlog = <<"entry", "idx", "hdr">>
    /\ alloc_log = <<>> /\ released = <<>>
    /\ pub = [hdr |-> construct_md_hdr(1, 1),
              idx |-> construct_md_idx(1, 1, CapIndex)]
    /\ hdr_pub_idx = construct_md_idx(1, 1, CapIndex)
    /\ ci_pre = [called |-> TRUE, idx_null |-> TRUE, len |-> 0, used |-> 0]
    /\ last_eot_hdr = 1
    /\ hist = [create |-> TRUE, pure |-> FALSE, eots |-> 1, upd |-> 1]
    /\ rd_pc = "idle" /\ rd_hdr = ZeroHdr /\ rd_idx = ZeroIdx
    /\ rd_pub_idx = ZeroIdx
    /\ OtherInit

NextCAP ==
    \/ \E p \in Pages, img \in Images : DirtyPage(p, img)
    \/ H5F_vfd_swmr_writer_end_of_tick
    \/ UpdateEntry
    \/ wop = "eot" /\ H5F__vfd_swmr_construct_write_md_idx
    \/ wop = "eot" /\ H5F__vfd_swmr_construct_write_md_hdr
    \/ ReleaseAndAdvance

SpecCAP == InitCAP /\ [][NextCAP]_vars

(***************************************************************************)
(* The index frame codec: H5F__vfd_swmr_construct_write_md_idx encodes an  *)
(* in-memory index, the reader VFD decodes the frame.                      *)
(***************************************************************************)
CdMaxEntries == 2

\* values of the 64-bit fields hdf5_page_offset and md_file_page_offset
CdPageOffsets == {1, UINT32_MOD - 1, UINT32_MOD + 1}
CdMdOffsets == {0, 1, UINT32_MOD}
\* values of the 32-bit field chksum
CdChksums == {0, UINT32_MOD - 1}
\* values of the 64-bit tick_num
CdTicks == {1, UINT32_MOD + 1}

CdEntries ==
    {[hdf5_page_offset |-> h, md_file_page_offset |-> m,
      length |-> fs_page_size, chksum |-> c, entry_ptr |-> NULL] :
        h \in CdPageOffsets, m \in CdMdOffsets, c \in CdChksums}

CdIndexes == UNION {[1..n -> CdEntries] : n \in 0..CdMaxEntries}

\* H5FD_vfd_swmr_get_tick_and_idx: the frame as the reader VFD decodes it
DecodeIndexFrame(frame) ==
    [magic |-> frame.magic,
     tick_num |-> frame.tick_num,
     num_entries |-> frame.num_entries,
     entries |-> [k \in 1..frame.num_entries |-> DecodeEntry(frame.entries[k])]]

InitCD ==
    /\ pc = "closed" /\ wop = "none" /\ closing = FALSE /\ ret_value = "none"
    /\ tick_num = 0
    /\ mdf_idx = <<>> /\ mdf_idx_entries_used = 0
    /\ dl = <<>> /\ mv_alloc = {}
    /\ md_hdr = ZeroHdr /\ md_idx = ZeroIdx
    /\ md_pages = [x \in Ext |-> NULL]
    /\ tl = [p \in Pages |-> NULL]
    /\ i = 1 /\ num_entries = 0 /\ idx_entries_added = 0
    /\ nfail = 0
    /\ wlog = <<>> /\ alloc_log = <<>> /\ released = <<>>
    /\ pub = [hdr |-> ZeroHdr, idx |-> ZeroIdx]
    /\ hdr_pub_idx = ZeroIdx
    /\ ci_pre = [called |-> FALSE, idx_null |-> TRUE, len |-> 0, used |-> 0]
    /\ last_eot_hdr = 0
    /\ hist = [create |-> FALSE, pure |-> TRUE, eots |-> 0, upd |-> 0]
    /\ rd_pc = "idle" /\ rd_hdr = ZeroHdr /\ rd_idx = ZeroIdx
    /\ rd_pub_idx = ZeroIdx
    /\ DwOff /\ EotqEmpty /\ ReOff
    /\ SchOff /\ PbOff /\ PfcOff /\ MdfOff /\ MoreOff
    /\ cd_pc = "ready"
    /\ cd_tick \in CdTicks
    /\ cd_index \in CdIndexes
    /\ cd_frame = ZeroIdx /\ cd_out = ZeroIdx

\* H5F__vfd_swmr_construct_write_md_idx(f, num_entries, index), lines 1786-1814
Cd_Encode ==
    /\ cd_pc = "ready"
    /\ cd_frame' = construct_md_idx(cd_tick, Len(cd_index), cd_index)
    /\ cd_pc' = "encoded"
    /\ UNCHANGED <<cd_tick, cd_index, cd_out>>
    /\ UNCHANGED <<writer_vars, shadow_vars, hist_vars, reader_vars, dw_vars,
                   eotq_vars, re_vars, sch_vars, pb_vars, pfc_vars, mdf_vars,
                   more_vars>>

\* the reader VFD decodes the frame
Cd_Decode ==
    /\ cd_pc = "encoded"
    /\ cd_out' = DecodeIndexFrame(cd_frame)
    /\ cd_pc' = "decoded"
    /\ UNCHANGED <<cd_tick, cd_index, cd_frame>>
    /\ UNCHANGED <<writer_vars, shadow_vars, hist_vars, reader_vars, dw_vars,
                   eotq_vars, re_vars, sch_vars, pb_vars, pfc_vars, mdf_vars,
                   more_vars>>

NextCD == Cd_Encode \/ Cd_Decode

SpecCD == InitCD /\ [][NextCD]_vars

(***************************************************************************)
(* Properties.                                                             *)
(***************************************************************************)

\* C1: within one run of H5F_update_vfd_swmr_metadata_file every write of a
\* page/multi-page entry precedes the write of the index frame, the index
\* frame is written before the header frame, and no entry is written after
\* the index frame; a run that gets as far as the release walk has written
\* the index frame and then the header frame as its last two writes.
C1_EntriesThenIndexThenHeader ==
    wop = "eot" =>
        /\ \A a, b \in 1..Len(wlog) :
              a < b =>
                 /\ ~(wlog[a] = "idx" /\ wlog[b] = "entry")
                 /\ ~(wlog[a] = "hdr" /\ wlog[b] \in {"entry", "idx"})
        /\ (pc = "release" \/ (pc = "idle" /\ ret_value = "SUCCEED")) =>
              /\ Len(wlog) >= 2
              /\ wlog[Len(wlog) - 1] = "idx"
              /\ wlog[Len(wlog)] = "hdr"

\* C1 witness: an end-of-tick that wrote two entries, the index and the header
C1_Witness ==
    /\ wop = "eot" /\ pc = "idle" /\ ret_value = "SUCCEED"
    /\ wlog = <<"entry", "entry", "idx", "hdr">>

\* C2: in every writer operation that writes a header frame (open of an
\* existing file, end-of-tick, flush, close) the index frame of that
\* publication has been written before the header frame.
C2_IndexBeforeHeaderInEveryOperation ==
    \A b \in 1..Len(wlog) :
        wlog[b] = "hdr" => \E a \in 1..(b - 1) : wlog[a] = "idx"

\* C3: an extent placed on the delayed list at tick t is released by no
\* end-of-tick run at a tick smaller than t + max_lag.
C3_NoReleaseBeforeMaxLag ==
    \A j \in 1..Len(released) : released[j].at >= released[j].sup + max_lag

\* C4: whenever a reader has read a header frame and then an index frame that
\* name the same tick, the index it read is the index the writer published
\* together with that header.
C4_SameTickSamePublication ==
    ( /\ rd_pc = "done"
      /\ rd_hdr.magic = H5FD_MD_HEADER_MAGIC
      /\ rd_idx.magic = H5FD_MD_INDEX_MAGIC
      /\ rd_hdr.tick_num = rd_idx.tick_num )
    => rd_idx = rd_pub_idx

\* C5: no extent the shadow allocator returns during
\* H5F_update_vfd_swmr_metadata_file is referenced by an index entry or held
\* on the delayed list at that moment; a republished page gets a new offset.
C5_AllocatedExtentNotInUse ==
    \A j \in 1..Len(alloc_log) :
        /\ alloc_log[j].new \notin alloc_log[j].inuse
        /\ alloc_log[j].new # alloc_log[j].old

\* C6: after a writer end-of-tick that failed, the header frame and the index
\* frame in the shadow file are those of the last successful publication.
C6_FailedTickPublishesNothing ==
    (wop = "eot" /\ pc = "idle" /\ ret_value = "FAIL") =>
        (md_hdr = pub.hdr /\ md_idx = pub.idx)

\* C7: also across failed and retried end-of-ticks no shadow extent is on the
\* delayed list more than once, and no extent is released twice or while an
\* index entry references it.
C7_DelayedListConsistentForRetry ==
    /\ \A a, b \in 1..Len(dl) :
          a # b => dl[a].md_file_page_offset # dl[b].md_file_page_offset
    /\ \A j \in 1..Len(released) :
          ~released[j].was_free /\ ~released[j].refd

\* C8: every call of H5F__vfd_swmr_writer__create_index by an end-of-tick at
\* tick 1 finds mdf_idx NULL, mdf_idx_len 0 and mdf_idx_entries_used 0.
C8_CreateIndexPreconditions ==
    ci_pre.called => (ci_pre.idx_null /\ ci_pre.len = 0 /\ ci_pre.used = 0)

\* a step in which an end-of-tick writes its header frame
EotWritesHeader ==
    wop = "eot" /\ Len(wlog') = Len(wlog) + 1 /\ wlog'[Len(wlog')] = "hdr"

\* a step in which an end-of-tick returns success
EotSucceeds ==
    wop = "eot" /\ pc = "release" /\ pc' = "idle" /\ ret_value' = "SUCCEED"

\* C9: the writer's tick is 1 at open, never decreases, grows by exactly one
\* in every successful end-of-tick, and the header frames written by
\* successive end-of-ticks name strictly increasing ticks.
C9_TickStrictlyMonotone ==
    [][ /\ (wop = "none" /\ wop' = "init") => tick_num' = 1
        /\ wop # "none" => tick_num' >= tick_num
        /\ EotSucceeds => tick_num' = tick_num + 1
        /\ EotWritesHeader => md_hdr'.tick_num > last_eot_hdr ]_vars

\* a new file, no application write, no flush, exactly three end-of-ticks, all
\* successful, the last one just returned
ThreeForcedEots ==
    /\ hist.create /\ hist.pure /\ hist.eots = 3 /\ nfail = 0
    /\ wop = "eot" /\ pc = "idle" /\ ret_value = "SUCCEED"

\* C10 as stated: after three forced end-of-ticks on a new file the header
\* frame names tick 4, the index frame names tick 4 with no entries, and the
\* delayed list is empty.
C10_HeaderNamesTick4 ==
    ThreeForcedEots =>
        /\ md_hdr.tick_num = 4
        /\ md_idx.tick_num = 4 /\ md_idx.num_entries = 0
        /\ dl = <<>>

\* C10 amended: after three forced end-of-ticks on a new file the writer's
\* tick is 4, the header frame names tick 3 (the last tick published), the
\* index frame names tick 3 with no entries, and the delayed list is empty.
C10_HeaderNamesTick3 ==
    ThreeForcedEots =>
        /\ tick_num = 4
        /\ md_hdr.magic = H5FD_MD_HEADER_MAGIC /\ md_hdr.tick_num = 3
        /\ md_hdr.index_length = H5FD_MD_INDEX_SIZE(0)
        /\ md_idx.magic = H5FD_MD_INDEX_MAGIC
        /\ md_idx.tick_num = 3 /\ md_idx.num_entries = 0
        /\ dl = <<>>

\* C10 witness: the third end-of-tick on a new, unwritten file has returned
C10_Witness == ThreeForcedEots /\ md_hdr.tick_num = 3

\* the running or last operation has written both frames
BothFramesWritten ==
    /\ \E a \in 1..Len(wlog) : wlog[a] = "idx"
    /\ \E a \in 1..Len(wlog) : wlog[a] = "hdr"

\* C11: once an operation (end-of-tick, flush, close, open of an existing
\* file) has written both frames, the index frame names the tick the header
\* frame names, and the header's index length is the number of bytes of the
\* index frame written: the fixed overhead plus 16 bytes per entry.
C11_FramesAgree ==
    BothFramesWritten =>
        /\ md_idx.tick_num = md_hdr.tick_num
        /\ md_hdr.index_length = IdxFrameBytes(md_idx)
        /\ md_hdr.index_length = 20 + 16 * md_idx.num_entries

\* C11 witness: an end-of-tick has published an index of two entries
C11_Witness ==
    /\ BothFramesWritten /\ wop = "eot" /\ pc = "idle"
    /\ md_idx.num_entries = 2 /\ md_hdr.index_length = 52

\* entries in strictly ascending order of hdf5_page_offset
StrictlyAscending(s) ==
    \A a \in 1..(Len(s) - 1) : s[a].hdf5_page_offset < s[a + 1].hdf5_page_offset

\* C12: every index frame an end-of-tick writes lists its entries in strictly
\* ascending order of hdf5_page_offset, and once the end-of-tick has returned
\* the used entries of the in-memory index are in that order.
C12_IndexSorted ==
    wop = "eot" =>
        /\ (\E a \in 1..Len(wlog) : wlog[a] = "idx") =>
              StrictlyAscending(md_idx.entries)
        /\ pc = "idle" =>
              StrictlyAscending(SubSeq(mdf_idx, 1, mdf_idx_entries_used))

\* C12 witness: an end-of-tick has published pages 1 and 2 and returned, the
\* entry of page 1 being the one written later
C12_Witness ==
    /\ wop = "eot" /\ pc = "idle" /\ ret_value = "SUCCEED"
    /\ mdf_idx_entries_used = 2 /\ md_idx.num_entries = 2
    /\ wlog = <<"entry", "idx", "hdr">>
    /\ mdf_idx[1].hdf5_page_offset = 1 /\ mdf_idx[2].md_file_page_offset # 0
    /\ md_idx.entries[2].md_file_page_offset = mdf_idx[2].md_file_page_offset

\* shadow pages the entries of an index frame name
IdxExtents(frame) ==
    {frame.entries[k].md_file_page_offset : k \in 1..Len(frame.entries)}

\* every entry of the index frame in the shadow file names a page whose bytes
\* have the checksum the entry carries
ChecksumsMatch ==
    md_idx.magic = H5FD_MD_INDEX_MAGIC =>
        \A k \in 1..Len(md_idx.entries) :
            LET e == md_idx.entries[k]
                bytes == md_pages[e.md_file_page_offset]
            IN  /\ e.md_file_page_offset \in Ext
                /\ bytes # NULL
                /\ UINT32ENCODE(H5_checksum_metadata(bytes)) = e.chksum

\* a step in which the entry loop writes a page into the shadow file
EntryWritten ==
    /\ Len(wlog') = Len(wlog) + 1 /\ wlog'[Len(wlog')] = "entry"
    /\ Len(alloc_log') = Len(alloc_log) + 1

\* C13: for every entry of the index frame in the shadow file, the bytes at the
\* entry's md_file_page_offset are the bytes whose checksum the entry carries,
\* and no write of the writer goes to (or otherwise changes) a page that the
\* index frame in the shadow file names.
C13_PublishedExtentsIntact ==
    /\ []ChecksumsMatch
    /\ [][ /\ EntryWritten =>
                alloc_log'[Len(alloc_log')].new \notin IdxExtents(md_idx)
           /\ \A x \in IdxExtents(md_idx) :
                x \in Ext => md_pages'[x] = md_pages[x] ]_vars

\* C13 witness: page 1 is published in one shadow page and a later end-of-tick
\* has just written its new image into another, the index frame still naming
\* the first
C13_Witness ==
    /\ wop = "eot" /\ pc = "idx" /\ tick_num >= 2
    /\ Len(alloc_log) = 1 /\ Len(md_idx.entries) = 1
    /\ alloc_log[1].old = md_idx.entries[1].md_file_page_offset
    /\ alloc_log[1].new # alloc_log[1].old
    /\ md_pages[alloc_log[1].new] # NULL

\* the used slots of the index whose hdf5_page_offset is the argument page
DwMatches ==
    {k \in 1..mdf_idx_entries_used : mdf_idx[k].hdf5_page_offset = dw_page}

\* C14: on a sorted, duplicate-free index (or none) the search ends on the one
\* used entry whose hdf5_page_offset is the page asked for, and on no entry
\* when there is none; the value computed is tick_num + max_lag when the page
\* is absent, the entry's delayed_flush when that is at least tick_num, and 0
\* when it is below tick_num; a successful call stores exactly that value.
C14_DelayWriteValue ==
    dw_pc = "done" =>
        /\ DwMatches = IF dw_ie = 0 THEN {} ELSE {dw_ie}
        /\ (DwMatches = {}) => dw_until = tick_num + max_lag
        /\ \A k \in DwMatches :
              /\ mdf_idx[k].delayed_flush >= tick_num
                    => dw_until = mdf_idx[k].delayed_flush
              /\ mdf_idx[k].delayed_flush < tick_num => dw_until = 0
        /\ dw_ret = "SUCCEED" => dw_out = dw_until

\* the last of three used entries is found and its delayed_flush is stored
C14_Witness ==
    /\ dw_pc = "done" /\ dw_ret = "SUCCEED"
    /\ mdf_idx_entries_used = 3 /\ dw_page = 3 /\ dw_ie = 3
    /\ tick_num = 2 /\ mdf_idx[3].delayed_flush = 4 /\ dw_out = 4
    /\ mdf_idx[4].hdf5_page_offset = 1

\* the closed range [tick_num, tick_num + max_lag]
DwInRange(v) == v >= tick_num /\ v <= tick_num + max_lag

\* C15 as stated: every value a successful call stores lies in
\* [tick_num, tick_num + max_lag], and a call whose value is outside that
\* range fails and stores nothing.
C15_EveryReturnedValueInRange ==
    dw_pc = "done" =>
        /\ dw_ret = "SUCCEED" => DwInRange(dw_out)
        /\ ~DwInRange(dw_until) => dw_ret = "FAIL" /\ dw_out = DW_UNSET

\* C15, amended: a successful call stores either 0 (the page is in the index
\* with a delayed_flush below tick_num: no delay) or a value in
\* [tick_num, tick_num + max_lag]; a call whose value is not 0 and outside
\* that range fails and stores nothing.
C15_NonzeroReturnedValueInRange ==
    dw_pc = "done" =>
        /\ dw_ret = "SUCCEED" =>
              \/ DwInRange(dw_out)
              \/ /\ dw_out = 0 /\ dw_ie # 0
                 /\ mdf_idx[dw_ie].delayed_flush < tick_num
        /\ (dw_until # 0 /\ ~DwInRange(dw_until)) =>
              dw_ret = "FAIL" /\ dw_out = DW_UNSET
        /\ dw_ret = "FAIL" => dw_until # 0 /\ ~DwInRange(dw_until)

\* a delayed_flush beyond tick_num + max_lag makes the call fail
C15_Witness ==
    /\ dw_pc = "done" /\ dw_ret = "FAIL" /\ dw_out = DW_UNSET
    /\ tick_num = 2 /\ dw_ie = 2 /\ mdf_idx[2].delayed_flush = 6
    /\ dw_until = 6

\* the deadlines met from the head of the EOT queue to its tail
EotDeadlinesFromHead ==
    LET w == EotWalk(eot_entry, vfd_swmr_eot_queue_head_g, EotMaxEntries)
    IN  [k \in 1..Len(w) |-> eot_entry[w[k]].end_of_tick]

\* C20: after any sequence of H5F_vfd_swmr_insert_entry_eot and
\* H5F_vfd_swmr_remove_entry_eot calls the EOT queue, read from its head to
\* its tail, is in non-decreasing order of end_of_tick.
C20_EotQueueSorted ==
    eot_ub = "no" =>
        \A a, b \in 1..Len(EotDeadlinesFromHead) :
            a < b => EotDeadlinesFromHead[a] <= EotDeadlinesFromHead[b]

\* the used entries of the old and of the current index of the reader
ReOldEntries == {old_mdf_idx[k] : k \in 1..old_mdf_idx_entries_used}
ReNewEntries == {mdf_idx[k] : k \in 1..mdf_idx_entries_used}

\* pages in both indexes at different shadow offsets, and pages only in the old
ReStalePages ==
    {o.hdf5_page_offset : o \in
        {x \in ReOldEntries :
            \A n \in ReNewEntries :
                n.hdf5_page_offset = x.hdf5_page_offset
                    => n.md_file_page_offset # x.md_file_page_offset}}

\* the calls of the current end of tick to one callee, in order
RECURSIVE ReCallsTo(_, _)
ReCallsTo(fn, calls) ==
    IF calls = <<>> THEN <<>>
    ELSE (IF Head(calls).fn = fn THEN <<Head(calls)>> ELSE <<>>)
             \o ReCallsTo(fn, Tail(calls))

RePbCalls == ReCallsTo("H5PB_remove_entry", re_calls)
ReMdcCalls == ReCallsTo("H5C_evict_or_refresh_all_entries_in_page", re_calls)

\* pass 0 of an end of tick that saw a changed tick is complete
RePass0Done ==
    \/ re_pc = "walk" /\ pass = 1
    \/ re_pc = "adopt"
    \/ re_pc = "requeue" /\ tmp_tick_num # re_pre.tick_num

\* both passes are complete
ReBothPassesDone ==
    \/ re_pc = "adopt"
    \/ re_pc = "requeue" /\ tmp_tick_num # re_pre.tick_num

C16_WitnessSameOffset ==
    /\ re_pc = "adopt"
    /\ old_mdf_idx_entries_used = 1 /\ mdf_idx_entries_used = 2
    /\ old_mdf_idx[1] = mdf_idx[1]
    /\ re_calls = <<>>

\* the pages of a sequence of calls
RePagesOf(calls) ==
    [k \in 1..Len(calls) |->
        IF calls[k].fn = "H5PB_remove_entry" THEN calls[k].arg \div fs_page_size
        ELSE calls[k].arg]

\* no page-buffer removal comes after a metadata-cache call
RePageBufferFirst ==
    \A a, b \in 1..Len(re_calls) :
        (a < b /\ re_calls[a].fn = "H5C_evict_or_refresh_all_entries_in_page")
            => re_calls[b].fn # "H5PB_remove_entry"

\* the metadata-cache calls so far are for the pages of the first removals, in
\* that order, each with the tick read from the header
RePass1FollowsPass0 ==
    /\ Len(ReMdcCalls) <= Len(RePbCalls)
    /\ RePagesOf(ReMdcCalls) = SubSeq(RePagesOf(RePbCalls), 1, Len(ReMdcCalls))
    /\ \A k \in 1..Len(ReMdcCalls) : ReMdcCalls[k].tick = tmp_tick_num
    /\ (ReMdcCalls # <<>> /\ re_pc = "walk") => pass = 1

\* C17: in a reader end of tick every H5PB_remove_entry call precedes the first
\* H5C_evict_or_refresh_all_entries_in_page call; pass 1 calls the cache for
\* the pages of pass 0 in the order of pass 0, each time with the tick read
\* from the header; and the tick of the file changes only in the step after
\* both passes, to that tick.
C17_PageBufferThenCacheThenTick ==
    /\ [](RePageBufferFirst /\ RePass1FollowsPass0)
    /\ [](ReBothPassesDone => Len(ReMdcCalls) = Len(RePbCalls))
    /\ [][tick_num' # tick_num =>
             /\ re_pc = "adopt" /\ pass = 2
             /\ Len(ReMdcCalls) = Len(RePbCalls)
             /\ tick_num' = tmp_tick_num]_vars

\* two pages went through pass 0 and pass 1 and the tick has been adopted
C17_Witness ==
    /\ re_pc = "requeue" /\ tick_num = 2 /\ re_pre.tick_num = 1
    /\ Len(re_calls) = 4
    /\ re_calls[1].fn = "H5PB_remove_entry"
    /\ re_calls[2].fn = "H5PB_remove_entry"
    /\ re_calls[3] = ReCall("H5C_evict_or_refresh_all_entries_in_page", 1, 2)
    /\ re_calls[4] = ReCall("H5C_evict_or_refresh_all_entries_in_page", 3, 2)

\* the EOT queue holds an entry of the reader's file
ReQueued ==
    \E n \in EotIds :
        /\ eot_entry[n].used /\ eot_entry[n].vfd_swmr_file = RdFile
        /\ n \in {EotWalk(eot_entry, vfd_swmr_eot_queue_head_g, EotMaxEntries)[k] :
                    k \in 1..Len(EotWalk(eot_entry, vfd_swmr_eot_queue_head_g,
                                         EotMaxEntries))}

\* the header read by the current end of tick named the tick of the file
ReSameTick == re_ret # "FAIL" /\ tmp_tick_num = re_pre.tick_num

\* C18: when the header names the tick the file already has, the end of tick
\* leaves mdf_idx, old_mdf_idx, both used counts and tick_num as they were and
\* calls neither the page buffer nor the metadata cache, and it ends with the
\* file's entry removed from the EOT queue and inserted again.
C18_SameTickOnlyRequeues ==
    /\ (ReSameTick /\ re_pc # "idle") =>
          /\ re_pc = "requeue" /\ ReFields = re_pre /\ re_calls = <<>>
    /\ (ReSameTick /\ re_pc = "idle" /\ re_ret = "SUCCEED") =>
          /\ ReFields = re_pre
          /\ re_calls = <<ReCall("H5F_vfd_swmr_remove_entry_eot", RdFile, 0),
                          ReCall("H5F_vfd_swmr_insert_entry_eot", RdFile, 0)>>
          /\ ReQueued

\* a reader at tick 2 with two used entries polls a header that still names
\* tick 2
C18_Witness ==
    /\ re_pc = "idle" /\ re_ret = "SUCCEED"
    /\ tmp_tick_num = 2 /\ re_pre.tick_num = 2 /\ tick_num = 2
    /\ mdf_idx_entries_used = 2 /\ old_mdf_idx_entries_used = 1
    /\ Len(re_calls) = 2 /\ ReQueued

\* C19: when the reader end of tick fails, mdf_idx, its used count,
\* old_mdf_idx and tick_num are what they were when the call began.
C19_FailureLeavesReaderAsBefore ==
    (re_pc = "idle" /\ re_ret = "FAIL") => ReFields = re_pre

\* C21: whenever the EOT queue is not empty, vfd_swmr_writer_g is the writer
\* flag of the entry at its head and end_of_tick_g is that entry's deadline;
\* whenever it is empty, vfd_swmr_writer_g is FALSE.
C21_GlobalsFollowHead ==
    eot_ub = "no" =>
        IF vfd_swmr_eot_queue_head_g # NULL
        THEN /\ vfd_swmr_writer_g
                    = eot_entry[vfd_swmr_eot_queue_head_g].vfd_swmr_writer
             /\ end_of_tick_g
                    = eot_entry[vfd_swmr_eot_queue_head_g].end_of_tick
        ELSE vfd_swmr_writer_g = FALSE

\* the deadline of the queue entry of file f
SchDeadline(f) ==
    LET n == EotFind(eot_entry, vfd_swmr_eot_queue_head_g, f, EotMaxEntries)
    IN  IF n = NULL THEN 0 ELSE eot_entry[n].end_of_tick

\* file f is at the head of the EOT queue
SchAtHead(f) ==
    /\ vfd_swmr_eot_queue_head_g # NULL
    /\ eot_entry[vfd_swmr_eot_queue_head_g].vfd_swmr_file = f

\* an end-of-tick routine runs for file f and succeeds
SchEotRuns(f) ==
    \/ Sch_ReaderSameTick(f)
    \/ \E d \in EotDeadlines : Sch_EndOfTick(f, d)

\* C22: every successful end-of-tick routine run for the file at the head of
\* the EOT queue leaves the file in the queue with a deadline strictly greater
\* than the deadline its entry had before, and the queue sorted.
C22_EotMovesDeadlineForward ==
    [][\A f \in EotFiles :
          (SchAtHead(f) /\ SchEotRuns(f)) =>
              /\ SchDeadline(f)' > SchDeadline(f)
              /\ C20_EotQueueSorted']_vars

\* no entry of the delayed list had expired at the tick of the last
\* successful run of H5F_update_vfd_swmr_metadata_file
NoneExpiredAtLastUpdate ==
    hist.upd # 0 =>
        \A k \in 1..Len(dl) :
            /\ dl[k].tick_num > hist.upd - max_lag
            /\ hist.upd - dl[k].tick_num < max_lag

\* C23 as stated: after every successful H5F_update_vfd_swmr_metadata_file run
\* at tick T no delayed-list entry with tick_num <= T - max_lag remains, and
\* every entry is released by the run at tick tick_num + max_lag exactly.
C23_ReleasedExactlyAtMaxLag ==
    /\ NoneExpiredAtLastUpdate
    /\ \A k \in 1..Len(released) :
          released[k].at = released[k].tick_num + max_lag

\* C23, amended: after every successful H5F_update_vfd_swmr_metadata_file run
\* at tick T no delayed-list entry with tick_num <= T - max_lag remains, and
\* no entry is released by a run before tick tick_num + max_lag; the entry is
\* released by the first successful run at or after that tick.
C23_ReleasedAtOrAfterMaxLag ==
    /\ NoneExpiredAtLastUpdate
    /\ \A k \in 1..Len(released) :
          released[k].at >= released[k].tick_num + max_lag

\* an extent superseded at tick 2 is still on the delayed list after the
\* run at tick 4
C23_WitnessHeld ==
    /\ hist.upd = 4 /\ Len(dl) = 1 /\ dl[1].tick_num = 2

\* the extent superseded at tick 2 has been released by the run at tick 5
\* while an entry of tick 3 stays
C23_Witness ==
    /\ hist.upd = 5 /\ pc = "idle" /\ ret_value = "SUCCEED"
    /\ Len(released) = 1 /\ released[1].at = 5 /\ released[1].tick_num = 2
    /\ Len(dl) = 1 /\ dl[1].tick_num = 3

\* H5F_vfd_swmr_writer__prep_for_flush_or_close has returned
PfcReturned == pfc_pc = "done"

CloseFailed == wop = "close" /\ pc = "closed" /\ ret_value = "FAIL"

\* C25: when a step of the close fails before the unlink (writing the empty
\* index, writing the header, closing the descriptor of the shadow file),
\* the unlink of the shadow file has still been attempted when
\* H5F_vfd_swmr_close_or_flush returns.
C25_UnlinkAttemptedOnCloseFailure ==
    CloseFailed => md_file.unlink_called

\* the capacity K of the index as the claim states it
IndexCapacity ==
    (md_pages_reserved * fs_page_size - H5FD_MD_HEADER_SIZE)
        \div H5FD_MD_INDEX_ENTRY_SIZE

\* entries the index would use after the merge of the tick list
EntriesAfterMerge ==
    LET create == (tick_num = 1)
        idx0 == IF create THEN H5F__vfd_swmr_writer__create_index ELSE mdf_idx
        used0 == IF create THEN 0 ELSE mdf_idx_entries_used
    IN  used0 + Len(NewPages(idx0, used0, tl))

\* a writer end of tick begins in this step
WriterEotBegins == pc = "idle" /\ wop' = "eot" /\ tl' = tl /\ wlog' = <<>>

C27_IndexFrameRoundTrip ==
    cd_pc = "decoded" =>
        /\ cd_out.tick_num = cd_tick
        /\ cd_out.num_entries = Len(cd_index)
        /\ \A k \in 1..Len(cd_index) :
              /\ cd_out.entries[k].hdf5_page_offset = cd_index[k].hdf5_page_offset
              /\ cd_out.entries[k].md_file_page_offset =
                     cd_index[k].md_file_page_offset
              /\ cd_out.entries[k].length = cd_index[k].length
              /\ cd_out.entries[k].chksum = cd_index[k].chksum

\* the reader end of tick is past the test of line 1186, in the block that
\* swaps the indexes, loads the new one and evicts pages
ReInChangedTickBlock == re_pc \in {"swap", "load", "walk", "adopt"}

\* C28: when the tick of the header has not increased (it is the reader's
\* tick or a smaller one), H5F_vfd_swmr_reader_end_of_tick does nothing to the
\* indexes and the caches; hence the reader's tick_num never decreases.
C28_ReaderTickNeverDecreases ==
    /\ [](ReInChangedTickBlock => tmp_tick_num > tick_num)
    /\ [][tick_num' >= tick_num]_vars

\* the entries of the EOT queue from its head to its tail
EotIdsFromHead ==
    EotWalk(eot_entry, vfd_swmr_eot_queue_head_g, EotMaxEntries)

\* the queue w of entries e with n put behind the last entry whose deadline
\* is not later than end_of_tick
EotPutBehindLastNotLater(w, e, n, end_of_tick) ==
    LET le == {k \in 1..Len(w) : e[w[k]].end_of_tick <= end_of_tick}
        pos == IF le = {} THEN 0 ELSE MaxOf(le)
    IN  SubSeq(w, 1, pos) \o <<n>> \o SubSeq(w, pos + 1, Len(w))

\* C29: H5F_vfd_swmr_insert_entry_eot places the new entry immediately behind
\* the last entry of the queue whose end_of_tick is not later than its own
\* (entries of equal end_of_tick stay in the order of their insertion), for
\* every length of the queue and every place (head, middle, tail), and every
\* entry that was queued stays queued in its place.
C29_InsertedBehindLastNotLater ==
    [][\A n \in EotIds :
          ~eot_entry[n].used /\ eot_entry'[n].used =>
              EotIdsFromHead' =
                  EotPutBehindLastNotLater(EotIdsFromHead, eot_entry, n,
                                           eot_entry'[n].end_of_tick)]_vars

\* one turn of the entry loop of H5F_update_vfd_swmr_metadata_file completes
\* in this step
EntryTurnCompletes ==
    pc = "entries" /\ wop = "eot" /\ wlog' = Append(wlog, "entry")

\* the delayed-list entry for the extent that index entry e gives up now
SupersededExtent(e) ==
    [hdf5_page_offset |-> e.hdf5_page_offset,
     md_file_page_offset |-> e.md_file_page_offset,
     length |-> e.length, tick_num |-> tick_num]

\* C30: in H5F_update_vfd_swmr_metadata_file, for each index entry whose
\* entry_ptr is not null, one delayed-list entry {previous
\* md_file_page_offset, length, current tick} is prepended if and only if
\* md_file_page_offset was nonzero before; afterwards md_file_page_offset is
\* the nonzero offset newly allocated and entry_ptr is null.  Entries whose
\* entry_ptr is null keep md_file_page_offset, length and chksum, create no
\* delayed-list entry, and are still part of the index frame.
C30_EntryLoopEffect ==
    /\ [](pc = "entries" /\ wop = "eot" =>
              i <= num_entries /\ mdf_idx[i].entry_ptr # NULL)
    /\ [][EntryTurnCompletes =>
             /\ dl' = IF mdf_idx[i].md_file_page_offset # 0
                      THEN <<SupersededExtent(mdf_idx[i])>> \o dl
                      ELSE dl
             /\ mdf_idx'[i].md_file_page_offset # 0
             /\ mdf_idx'[i].md_file_page_offset \notin mv_alloc
             /\ mdf_idx'[i].md_file_page_offset \in mv_alloc'
             /\ mdf_idx'[i].entry_ptr = NULL
             /\ mdf_idx'[i].hdf5_page_offset = mdf_idx[i].hdf5_page_offset
             /\ mdf_idx'[i].length = mdf_idx[i].length
             /\ i' > i
             /\ \A k \in 1..Len(mdf_idx) : k # i => mdf_idx'[k] = mdf_idx[k]
             /\ \A k \in (i + 1)..(i' - 1) :
                    k <= num_entries => mdf_idx[k].entry_ptr = NULL]_vars
    /\ [][pc = "idx" /\ wop = "eot" /\ md_idx' # md_idx =>
             /\ md_idx'.num_entries = num_entries
             /\ \A k \in 1..num_entries :
                    /\ mdf_idx[k].entry_ptr = NULL
                    /\ md_idx'.entries[k] = EncodeEntry(mdf_idx[k])]_vars

\* the loop has written one of two entries: the extent it had is on the
\* delayed list under the current tick, the other entry was passed over and
\* keeps its extent
C30_Witness ==
    /\ pc = "idx" /\ wop = "eot" /\ nfail = 0
    /\ num_entries = 2 /\ Len(alloc_log) = 1 /\ alloc_log[1].old # 0
    /\ dl # <<>> /\ dl[1].tick_num = tick_num
    /\ dl[1].md_file_page_offset = alloc_log[1].old
    /\ \E k \in 1..2 :
          /\ mdf_idx[k].md_file_page_offset # 0
          /\ mdf_idx[k].md_file_page_offset # alloc_log[1].new

(***************************************************************************)
(* Flush-mode H5F_vfd_swmr_close_or_flush and the tick number.             *)
(***************************************************************************)
\* the step in which a flush-mode H5F_vfd_swmr_close_or_flush returns SUCCEED
FlushSucceeds ==
    /\ pc = "fin" /\ wop = "flush" /\ ~closing
    /\ pc' = "idle" /\ ret_value' = "SUCCEED"

\* C31: a successful flush-mode H5F_vfd_swmr_close_or_flush at tick T has
\* written an empty index and a header naming T, and leaves the writer's tick
\* at T + 1 (one increment).
C31_FlushIncrementsTickOnce ==
    [][FlushSucceeds =>
          /\ md_idx.num_entries = 0
          /\ md_idx.tick_num = tick_num
          /\ md_hdr.tick_num = tick_num
          /\ tick_num' = tick_num + 1]_vars

(***************************************************************************)
(* Termination of H5F_vfd_swmr_writer__prep_for_flush_or_close.  The       *)
(* writer thread keeps running: each step of the routine that is enabled   *)
(* is eventually taken.  The routine is entered while the ticks its drain  *)
(* loop can need are still below MaxTick.                                  *)
(***************************************************************************)
NextPFCL ==
    \/ pfc_pc = "idle" /\ H5F_vfd_swmr_init(TRUE)
    \/ \E p \in Pages, img \in Images : pfc_pc = "idle" /\ DirtyPage(p, img)
    \/ \E until \in 1..(MaxTick + max_lag) : H5PB_DelayWrite(until)
    \/ /\ tick_num + max_lag < MaxTick
       /\ H5F_vfd_swmr_writer__prep_for_flush_or_close
    \/ Pfc_CallEndOfTick
    \/ Pfc_EndOfTick
    \/ Pfc_EndOfTickReturned
    \/ HDnanosleep
    \/ Pfc_CallerDone

PfcFairness ==
    /\ WF_vars(Pfc_CallEndOfTick)
    /\ WF_vars(Pfc_EndOfTick)
    /\ WF_vars(Pfc_EndOfTickReturned)
    /\ WF_vars(HDnanosleep)

SpecPFCL == Init /\ [][NextPFCL]_vars /\ PfcFairness

\* H5F_vfd_swmr_writer__prep_for_flush_or_close is running
PfcRunning == pfc_pc \in {"call", "eot", "sleep"}

WatMaxNaps == 4     \* HDnanosleep calls of one prep_for_flush_or_close followed

Wat_HDnanosleep ==
    /\ pfc_pc = "sleep"
    /\ \/ \* result = 0: the loop is left, line 2016 calls the end of tick
          /\ pfc_pc' = "call"
          /\ req' = 0
          /\ sleep_errno' = "none"
          /\ pfc_hist' = [pfc_hist EXCEPT !.sleeps = @ + 1,
                                          !.slept = @ + req,
                                          !.naps = @ + 1]
       \/ \* result = -1, errno = EINTR: the loop goes round with rem
          \E rem \in 0..(req - 1) :
             /\ req' = rem
             /\ sleep_errno' = "EINTR"
             /\ pfc_hist' = [pfc_hist EXCEPT !.slept = @ + (req - rem),
                                             !.naps = @ + 1]
             /\ UNCHANGED pfc_pc
       \/ \* result = -1, another errno: the loop goes round as well
          \E rem \in 0..PfcTickLen :
             /\ pfc_hist.naps < WatMaxNaps
             /\ req' = rem
             /\ sleep_errno' = "EINVAL"
             /\ pfc_hist' = [pfc_hist EXCEPT !.naps = @ + 1]
             /\ UNCHANGED pfc_pc
    /\ UNCHANGED <<writer_vars, shadow_vars, hist_vars, reader_vars, dw_vars,
                   eotq_vars, re_vars, sch_vars, cd_vars, rest_vars,
                   mdf_vars, pb_vars, pfc_ret>>

NextWAT ==
    \/ pfc_pc = "idle" /\ H5F_vfd_swmr_init(TRUE)
    \/ \E until \in 1..(MaxTick + max_lag) : H5PB_DelayWrite(until)
    \/ H5F_vfd_swmr_writer__prep_for_flush_or_close
    \/ Pfc_CallEndOfTick
    \/ Pfc_EndOfTick
    \/ Pfc_EndOfTickReturned
    \/ Wat_HDnanosleep
    \/ Pfc_CallerDone

SpecWAT == Init /\ [][NextWAT]_vars

\* a call of HDnanosleep returns
HDnanosleepReturns == pfc_pc = "sleep" /\ pfc_hist'.naps # pfc_hist.naps

\* C33: H5F__vfd_swmr_writer__wait_a_tick calls HDnanosleep again only when
\* the call was interrupted, and then with the time that was left; a call
\* that fails for another reason makes the function return FAIL.
C33_RetriesOnlyWhenInterrupted ==
    [][HDnanosleepReturns =>
          /\ pfc_pc' = "sleep" => sleep_errno' = "EINTR" /\ req' < req
          /\ sleep_errno' \notin {"none", "EINTR"} =>
                 pfc_pc' = "done" /\ pfc_ret' = "FAIL"]_vars

(***************************************************************************)
(* The holding tank of freed space, H5MFfreedspace.c.  H5_now_usec and the *)
(* callers are outside the source: time only moves forward, an object is   *)
(* pushed once, at or after its creation, and the caller's variable behind *)
(* the argument freedspace holds NULL or what the call before left in it.  *)
(***************************************************************************)
FsMaxTime == 4      \* H5_now_usec stays below this
FsMaxLimit == 2     \* largest time_limit passed

\* every other part of the model at rest
BaseOff ==
    /\ pc = "closed" /\ wop = "none" /\ closing = FALSE /\ ret_value = "none"
    /\ tick_num = 0
    /\ mdf_idx = <<>> /\ mdf_idx_entries_used = 0
    /\ dl = <<>> /\ mv_alloc = {}
    /\ md_hdr = ZeroHdr /\ md_idx = ZeroIdx
    /\ md_pages = [x \in Ext |-> NULL]
    /\ tl = [p \in Pages |-> NULL]
    /\ i = 1 /\ num_entries = 0 /\ idx_entries_added = 0
    /\ nfail = 0
    /\ wlog = <<>> /\ alloc_log = <<>> /\ released = <<>>
    /\ pub = [hdr |-> ZeroHdr, idx |-> ZeroIdx]
    /\ hdr_pub_idx = ZeroIdx
    /\ ci_pre = [called |-> FALSE, idx_null |-> TRUE, len |-> 0, used |-> 0]
    /\ last_eot_hdr = 0
    /\ hist = [create |-> FALSE, pure |-> TRUE, eots |-> 0, upd |-> 0]
    /\ rd_pc = "idle" /\ rd_hdr = ZeroHdr /\ rd_idx = ZeroIdx
    /\ rd_pub_idx = ZeroIdx
    /\ DwOff /\ EotqEmpty /\ ReOff
    /\ SchOff /\ PbOff /\ PfcOff /\ MdfOff /\ CdOff /\ WatOff

base_vars == <<writer_vars, shadow_vars, hist_vars, reader_vars, dw_vars,
               eotq_vars, re_vars, sch_vars, pb_vars, pfc_vars, mdf_vars,
               cd_vars, wat_vars>>

InitFS == BaseOff /\ FsOff /\ FcOff

\* H5_now_usec returns a later time
Fs_TimePasses ==
    /\ fs_now + 1 < FsMaxTime
    /\ fs_now' = fs_now + 1
    /\ fs_hist' = [fs_hist EXCEPT !.op = "time"]
    /\ UNCHANGED <<freedspace_head, freedspace_tail, fs_nodes, fs_arg>>
    /\ UNCHANGED <<base_vars, fc_vars>>

\* H5MF__freedspace_new, lines 115-124: the object is stamped when created
H5MF__freedspace_new(n) ==
    /\ fs_nodes[n].at = "free"
    /\ fs_nodes' = [fs_nodes EXCEPT ![n] = [timestamp |-> fs_now,
                                            next |-> NULL,
                                            at |-> "cache",
                                            pushed_at |-> 0]]
    /\ fs_hist' = [fs_hist EXCEPT !.op = "new"]
    /\ UNCHANGED <<freedspace_head, freedspace_tail, fs_now, fs_arg>>
    /\ UNCHANGED <<base_vars, fc_vars>>

\* H5MF__freedspace_push(&head, &tail, freedspace), lines 330-340
H5MF__freedspace_push(freedspace) ==
    /\ fs_nodes[freedspace].at = "cache"
    /\ IF freedspace_head = NULL
       THEN /\ freedspace_head' = freedspace
            /\ freedspace_tail' = freedspace
            /\ fs_nodes' = [fs_nodes EXCEPT
                              ![freedspace].at = "tank",
                              ![freedspace].pushed_at = fs_now]
       ELSE /\ fs_nodes' = [fs_nodes EXCEPT
                              ![freedspace_tail].next = freedspace,
                              ![freedspace].next = NULL,
                              ![freedspace].at = "tank",
                              ![freedspace].pushed_at = fs_now]
            /\ freedspace_tail' = freedspace
            /\ UNCHANGED freedspace_head
    /\ fs_hist' = [fs_hist EXCEPT !.op = "push",
                                  !.pushed = Append(@, freedspace)]
    /\ UNCHANGED <<fs_now, fs_arg>>
    /\ UNCHANGED <<base_vars, fc_vars>>

\* H5MF__freedspace_dequeue_time_limit(f, &freedspace, time_limit), lines
\* 371-391; prior is what the caller's variable holds at the call
H5MF__freedspace_dequeue_time_limit(prior, time_limit) ==
    /\ IF freedspace_head = NULL
       THEN /\ fs_arg' = NULL
            /\ fs_hist' = [fs_hist EXCEPT !.op = "dequeue",
                                          !.time_limit = time_limit]
            /\ UNCHANGED <<freedspace_head, freedspace_tail, fs_nodes>>
       ELSE LET now_time == fs_now
                entry_time == fs_nodes[freedspace_head].timestamp
            IN  IF (now_time - entry_time) % UINT64_MOD > time_limit
                THEN /\ fs_arg' = freedspace_head
                     /\ IF fs_nodes[freedspace_head].next # NULL
                        THEN /\ freedspace_head' =
                                    fs_nodes[freedspace_head].next
                             /\ UNCHANGED freedspace_tail
                        ELSE /\ freedspace_head' = NULL
                             /\ freedspace_tail' = NULL
                     /\ fs_nodes' = [fs_nodes EXCEPT
                                       ![freedspace_head].at = "caller"]
                     /\ fs_hist' = [fs_hist EXCEPT
                                       !.op = "dequeue",
                                       !.time_limit = time_limit,
                                       !.left = Append(@, freedspace_head)]
                ELSE /\ fs_arg' = prior
                     /\ fs_hist' = [fs_hist EXCEPT !.op = "dequeue",
                                                   !.time_limit = time_limit]
                     /\ UNCHANGED <<freedspace_head, freedspace_tail,
                                    fs_nodes>>
    /\ UNCHANGED fs_now
    /\ UNCHANGED <<base_vars, fc_vars>>

NextFS ==
    \/ Fs_TimePasses
    \/ \E n \in FsNodes : H5MF__freedspace_new(n)
    \/ \E n \in FsNodes : H5MF__freedspace_push(n)
    \/ \E prior \in {NULL, fs_arg}, time_limit \in 0..FsMaxLimit :
          H5MF__freedspace_dequeue_time_limit(prior, time_limit)

SpecFS == InitFS /\ [][NextFS]_vars

\* H5MF__freedspace_dequeue_time_limit returns
FsDequeueReturns == fs_hist'.op = "dequeue"

\* the head of the holding tank has been queued longer than the time_limit
\* of the call that returns
FsHeadOldEnough ==
    /\ freedspace_head # NULL
    /\ fs_now - fs_nodes[freedspace_head].pushed_at > fs_hist'.time_limit

\* s is the beginning of t
FsPrefix(s, t) == Len(s) <= Len(t) /\ s = SubSeq(t, 1, Len(s))

\* a call with an empty tank or a head that is not old enough reports NULL and
\* leaves the tank as it is
C34_NoEntryReportsNull ==
    [][FsDequeueReturns /\ ~FsHeadOldEnough =>
          /\ fs_arg' = NULL
          /\ UNCHANGED <<freedspace_head, freedspace_tail, fs_nodes>>]_vars

\* a call that finds a head old enough returns it and takes it off
C34_OldHeadLeaves ==
    [][FsDequeueReturns /\ FsHeadOldEnough =>
          /\ fs_arg' = freedspace_head
          /\ freedspace_head' = fs_nodes[freedspace_head].next
          /\ fs_hist'.left = Append(fs_hist.left, freedspace_head)]_vars

\* the objects leave in the order they were pushed, and head and tail are NULL
\* together
C34_Fifo ==
    /\ FsPrefix(fs_hist.left, fs_hist.pushed)
    /\ (freedspace_head = NULL) <=> (freedspace_tail = NULL)

\* C34: H5MF__freedspace_dequeue_time_limit returns the head of the holding
\* tank and removes it only if the head has been queued longer than
\* time_limit; otherwise it reports NULL and leaves the tank unchanged; the
\* objects leave in the order they were pushed, and head is NULL exactly when
\* tail is NULL.
C34_DequeueOldestPastTimeLimit ==
    /\ C34_NoEntryReportsNull
    /\ C34_OldHeadLeaves
    /\ []C34_Fifo

(***************************************************************************)
(* H5MF__freedspace_create and its cache iteration callback.  The metadata *)
(* cache is outside the source: H5AC_cache_is_clean says whether any entry *)
(* is dirty, H5AC_iterate calls the callback once for each entry, and no   *)
(* two entries have the same address.                                      *)
(***************************************************************************)
FcMaxEntries == 2   \* entries in the cache at most
FcMaxAddr == 2      \* addresses of cache entries are 1..FcMaxAddr
FcMaxRing == 3      \* rings are 1..FcMaxRing
H5AC_RING_USER == 1

\* the cache clients a flush dependency is created on when raw data space is
\* freed, lines 188-191
FcRawTypes ==
    {"H5AC_BT2_HDR_ID", "H5AC_BT2_INT_ID", "H5AC_BT2_LEAF_ID",
     "H5AC_EARRAY_HDR_ID", "H5AC_EARRAY_IBLOCK_ID", "H5AC_EARRAY_SBLOCK_ID",
     "H5AC_EARRAY_DBLOCK_ID", "H5AC_EARRAY_DBLK_PAGE_ID",
     "H5AC_FARRAY_HDR_ID", "H5AC_FARRAY_DBLOCK_ID",
     "H5AC_FARRAY_DBLK_PAGE_ID",
     "H5AC_OHDR_ID", "H5AC_OHDR_CHK_ID"}

\* the cache-internal clients, lines 195-196
FcInternalTypes ==
    {"H5AC_FREEDSPACE_ID", "H5AC_PROXY_ENTRY_ID", "H5AC_EPOCH_MARKER_ID",
     "H5AC_PREFETCHED_ENTRY_ID"}

\* the clients of the entries the cache is filled with
FcTypes ==
    {"H5AC_OHDR_ID", "H5AC_BT2_LEAF_ID", "H5AC_EARRAY_DBLK_PAGE_ID",
     "H5AC_FARRAY_HDR_ID", "H5AC_BT_ID"} \cup FcInternalTypes

FcAllocTypes == {"H5FD_MEM_DRAW", "H5FD_MEM_BTREE"}

FcEntries ==
    [addr : 1..FcMaxAddr, is_dirty : BOOLEAN, ring : 1..FcMaxRing,
     type : FcTypes]

FcCaches ==
    {c \in UNION {[1..n -> FcEntries] : n \in 0..FcMaxEntries} :
        \A a, b \in 1..Len(c) : a # b => c[a].addr # c[b].addr}

\* the ring test of the callback with < in place of <=
FcRingOk_strict(entry_ring, ctx_ring) == entry_ring < ctx_ring

\* entry->ring <= ctx->ring, line 176
FcRingOk(entry_ring, ctx_ring) == entry_ring <= ctx_ring

\* create_fd, lines 187-197
FcCreateFd(alloc_type, type_id) ==
    IF alloc_type = "H5FD_MEM_DRAW"
    THEN type_id \in FcRawTypes
    ELSE type_id \notin FcInternalTypes

\* the test at line 176
FcCandidate(entry, addr, ring) ==
    entry.addr # addr /\ entry.is_dirty /\ FcRingOk(entry.ring, ring)

InitFC ==
    /\ BaseOff /\ FsOff
    /\ fc_pc = "ready"
    /\ fc_cache \in FcCaches
    /\ fc_in \in [alloc_type : FcAllocTypes, addr : {1, FcMaxAddr + 1},
                  cx_ring : 1..FcMaxRing]
    /\ fc_ctx = [ring |-> 0, fs |-> NULL, k |-> 0]
    /\ fc_deps = {}
    /\ fc_out = [fs |-> NULL, ret_value |-> "none", created |-> 0]

\* HGOTO_ERROR in H5MF__freedspace_create, or H5AC_iterate returns the error
\* of the callback: *fs is NULL, so the done block frees nothing
FcFail ==
    /\ fc_pc' = "done"
    /\ fc_out' = [fc_out EXCEPT !.ret_value = "FAIL", !.fs = NULL]

\* H5MF__freedspace_create, lines 246-272
Fc_Enter ==
    /\ fc_pc = "ready"
    /\ LET cache_clean == \A k \in 1..Len(fc_cache) : ~fc_cache[k].is_dirty
           in_cache == {k \in 1..Len(fc_cache) :
                            fc_cache[k].addr = fc_in.addr}
           ring == IF fc_in.alloc_type = "H5FD_MEM_DRAW"
                   THEN H5AC_RING_USER
                   ELSE IF in_cache # {}
                        THEN fc_cache[CHOOSE k \in in_cache : TRUE].ring
                        ELSE fc_in.cx_ring
       IN  \/ \* H5AC_cache_is_clean, H5AC_get_entry_status or
              \* H5AC_get_entry_ring fails
              /\ FcFail
              /\ UNCHANGED <<fc_ctx, fc_deps>>
           \/ /\ cache_clean
              /\ fc_pc' = "done"
              /\ fc_out' = [fc_out EXCEPT !.ret_value = "SUCCEED"]
              /\ UNCHANGED <<fc_ctx, fc_deps>>
           \/ /\ ~cache_clean
              /\ fc_ctx' = [ring |-> ring, fs |-> NULL, k |-> 1]
              /\ fc_pc' = "iter"
              /\ UNCHANGED <<fc_deps, fc_out>>
    /\ UNCHANGED <<fc_cache, fc_in>>
    /\ UNCHANGED <<base_vars, fs_vars>>

\* H5MF__freedspace_create_cb(entry, ctx) for the next entry of the cache
H5MF__freedspace_create_cb ==
    /\ fc_pc = "iter" /\ fc_ctx.k <= Len(fc_cache)
    /\ LET entry == fc_cache[fc_ctx.k]
       IN  IF FcCandidate(entry, fc_in.addr, fc_ctx.ring)
           THEN \/ \* H5AC_get_entry_type fails
                   /\ FcFail
                   /\ UNCHANGED <<fc_ctx, fc_deps>>
                \/ /\ ~FcCreateFd(fc_in.alloc_type, entry.type)
                   /\ fc_ctx' = [fc_ctx EXCEPT !.k = @ + 1]
                   /\ UNCHANGED <<fc_pc, fc_deps, fc_out>>
                \/ /\ FcCreateFd(fc_in.alloc_type, entry.type)
                   /\ \/ \* H5FL_CALLOC fails in H5MF__freedspace_new
                         /\ fc_ctx.fs = NULL
                         /\ FcFail
                         /\ UNCHANGED <<fc_ctx, fc_deps>>
                      \/ \* H5MF_alloc_tmp or H5AC_insert_entry fails in
                         \* H5MF__freedspace_new, behind H5FL_CALLOC
                         /\ fc_ctx.fs = NULL
                         /\ fc_pc' = "done"
                         /\ fc_out' = [fs |-> NULL, ret_value |-> "FAIL",
                                       created |-> fc_out.created + 1]
                         /\ UNCHANGED <<fc_ctx, fc_deps>>
                      \/ \* H5AC_create_flush_dependency fails
                         /\ fc_pc' = "done"
                         /\ fc_ctx' = [fc_ctx EXCEPT
                                         !.fs = IF @ = NULL
                                                THEN fc_out.created + 1
                                                ELSE @]
                         /\ fc_out' = [fs |-> NULL, ret_value |-> "FAIL",
                                       created |->
                                           IF fc_ctx.fs = NULL
                                           THEN fc_out.created + 1
                                           ELSE fc_out.created]
                         /\ UNCHANGED fc_deps
                      \/ /\ fc_ctx' = [fc_ctx EXCEPT
                                         !.fs = IF @ = NULL
                                                THEN fc_out.created + 1
                                                ELSE @,
                                         !.k = @ + 1]
                         /\ fc_out' = [fc_out EXCEPT
                                         !.created = IF fc_ctx.fs = NULL
                                                     THEN @ + 1 ELSE @]
                         /\ fc_deps' = fc_deps \cup {fc_ctx.k}
                         /\ UNCHANGED fc_pc
           ELSE /\ fc_ctx' = [fc_ctx EXCEPT !.k = @ + 1]
                /\ UNCHANGED <<fc_pc, fc_deps, fc_out>>
    /\ UNCHANGED <<fc_cache, fc_in>>
    /\ UNCHANGED <<base_vars, fs_vars>>

\* H5AC_iterate has returned: lines 279-296
Fc_Return ==
    /\ fc_pc = "iter" /\ fc_ctx.k > Len(fc_cache)
    /\ fc_pc' = "done"
    /\ fc_out' = [fc_out EXCEPT !.fs = fc_ctx.fs, !.ret_value = "SUCCEED"]
    /\ UNCHANGED <<fc_cache, fc_in, fc_ctx, fc_deps>>
    /\ UNCHANGED <<base_vars, fs_vars>>

NextFC == Fc_Enter \/ H5MF__freedspace_create_cb \/ Fc_Return

SpecFC == InitFC /\ [][NextFC]_vars

\* the entries the claim calls eligible, for the ring of the freed space
FcEligible ==
    {k \in 1..Len(fc_cache) :
        /\ fc_cache[k].is_dirty
        /\ fc_cache[k].addr # fc_in.addr
        /\ fc_cache[k].ring <= fc_ctx.ring
        /\ IF fc_in.alloc_type = "H5FD_MEM_DRAW"
           THEN fc_cache[k].type \in FcRawTypes
           ELSE fc_cache[k].type \notin FcInternalTypes}

FcClean == \A k \in 1..Len(fc_cache) : ~fc_cache[k].is_dirty

FcSucceeded == fc_pc = "done" /\ fc_out.ret_value = "SUCCEED"

\* C35: H5MF__freedspace_create creates at most one freedspace object; when
\* it succeeds on a clean cache it returns none; when it succeeds on a cache
\* that is not clean it returns an object if and only if some entry is dirty,
\* not at the freed address, in a ring <= the ring of the freed space and of
\* an allowed type, and exactly those entries have become its flush
\* dependency children.
C35_FreedspaceCreate ==
    /\ fc_out.created <= 1
    /\ FcSucceeded /\ FcClean =>
           fc_out.fs = NULL /\ fc_out.created = 0 /\ fc_deps = {}
    /\ FcSucceeded /\ ~FcClean =>
           /\ (fc_out.fs # NULL) <=> (FcEligible # {})
           /\ (fc_out.fs # NULL) <=> (fc_out.created = 1)
           /\ fc_deps = FcEligible

\* a free of metadata space has returned an object with one child, leaving
\* out a dirty entry of a later ring
C35_Witness ==
    /\ FcSucceeded /\ fc_out.fs # NULL
    /\ fc_in.alloc_type = "H5FD_MEM_BTREE"
    /\ Len(fc_cache) = 2 /\ fc_deps = {2}
    /\ fc_cache[1].is_dirty /\ fc_cache[1].addr # fc_in.addr
    /\ fc_cache[1].ring > fc_ctx.ring
    /\ fc_cache[2].ring = fc_ctx.ring

\* a free of raw data space has left out a dirty entry that is not an object
\* header or chunk index
C35_WitnessRaw ==
    /\ FcSucceeded /\ fc_out.fs = NULL /\ ~FcClean
    /\ fc_in.alloc_type = "H5FD_MEM_DRAW"
    /\ \E k \in 1..Len(fc_cache) :
          fc_cache[k].is_dirty /\ fc_cache[k].type = "H5AC_BT_ID"
                               /\ fc_cache[k].ring = H5AC_RING_USER

\* bytes reserved at the start of the shadow file, lines 240-256
ReservedBytes == md_pages_reserved * fs_page_size

\* the step in which the index image is written
IndexFrameWritten == Len(wlog') = Len(wlog) + 1 /\ wlog'[Len(wlog')] = "idx"

\* C36: the header frame and an index frame with as many entries as the index
\* holds (mdf_idx_len of H5F__vfd_swmr_writer__create_index) fit into the
\* md_pages_reserved * page_size bytes reserved at the start of the shadow
\* file: no index frame that is written, the one of a full index included,
\* goes beyond the reserved bytes or changes a shadow page handed out for a
\* page entry.
C36_IndexFrameInsideReservedPages ==
    /\ [](md_idx.magic = H5FD_MD_INDEX_MAGIC =>
              H5FD_MD_HEADER_OFF + H5FD_MD_HEADER_SIZE + IdxFrameBytes(md_idx)
                  <= ReservedBytes)
    /\ [][IndexFrameWritten =>
              \A x \in Ext : x \in mv_alloc => md_pages'[x] = md_pages[x]]_vars

\* the step in which an operation of the writer writes its header frame
HeaderFrameWritten == Len(wlog') = Len(wlog) + 1 /\ wlog'[Len(wlog')] = "hdr"

\* C37: no two publications of the writer that carry different index contents
\* name the same tick: a header frame written with the tick of the header
\* frame it replaces comes with the index that one came with.
C37_OneIndexPerTick ==
    [][ ( /\ HeaderFrameWritten
          /\ md_hdr.magic = H5FD_MD_HEADER_MAGIC
          /\ md_hdr'.tick_num = md_hdr.tick_num )
        => hdr_pub_idx'.entries = hdr_pub_idx.entries ]_vars

\* the release walk of H5F_update_vfd_swmr_metadata_file has gone through and
\* the end of tick has advanced the tick
ReleaseWalkCompletes ==
    pc = "release" /\ wop = "eot" /\ tick_num' = tick_num + 1

\* C38: the delayed list, read from head to tail, has non-increasing tick_num
\* in every reachable state, and a release walk that has gone through leaves
\* no entry on the list that it would have released.
C38_DelayedListNewestFirst ==
    /\ [](\A k \in 1..(Len(dl) - 1) : dl[k].tick_num >= dl[k + 1].tick_num)
    /\ [][ReleaseWalkCompletes =>
              \A k \in 1..Len(dl') : ~Expired(dl'[k], tick_num)]_vars

\* an end of tick has released the oldest entry from the tail and kept a
\* newer one
C38_Witness ==
    /\ pc = "idle" /\ wop = "eot" /\ ret_value = "SUCCEED"
    /\ Len(released) >= 1 /\ Len(dl) >= 1
    /\ dl[Len(dl)].tick_num > released[Len(released)].tick_num

\* the entries that have been inserted and not removed
EotQueued == {n \in EotIds : eot_entry[n].used}

\* C39: after any sequence of insertions into and removals from the EOT queue
\* the queue is a well-formed doubly linked list (head.prev and tail.next are
\* NULL, x.next.prev = x for every entry but the tail, every queued entry is
\* met exactly once on the way from the head), and no operation has stored
\* through a NULL link.
C39_EotQueueWellFormed ==
    /\ eot_ub = "no"
    /\ (vfd_swmr_eot_queue_head_g = NULL) <=> (vfd_swmr_eot_queue_tail_g = NULL)
    /\ (vfd_swmr_eot_queue_head_g = NULL) <=> (EotQueued = {})
    /\ vfd_swmr_eot_queue_head_g # NULL =>
           /\ eot_entry[vfd_swmr_eot_queue_head_g].prev = NULL
           /\ eot_entry[vfd_swmr_eot_queue_tail_g].next = NULL
    /\ \A x \in EotQueued :
           /\ x # vfd_swmr_eot_queue_tail_g =>
                  /\ eot_entry[x].next # NULL
                  /\ eot_entry[eot_entry[x].next].prev = x
           /\ Cardinality({k \in 1..Len(EotIdsFromHead) :
                               EotIdsFromHead[k] = x}) = 1
    /\ Len(EotIdsFromHead) = Cardinality(EotQueued)

\* the entry of file f in the EOT queue, NULL when the file has none
SchEntry(f) ==
    EotFind(eot_entry, vfd_swmr_eot_queue_head_g, f, EotMaxEntries)

\* C40: between operations the EOT-queue entry of every queued file records
\* that file's current state: its deadline equals the file's end_of_tick and
\* its tick_num equals the file's tick_num, after any sequence of end-of-ticks
\* and flush-mode H5F_vfd_swmr_close_or_flush calls.
C40_EotEntryRecordsFileState ==
    eot_ub # "crashed" =>
        \A f \in EotFiles :
            (sch_files[f].open /\ SchEntry(f) # NULL) =>
                /\ eot_entry[SchEntry(f)].end_of_tick = sch_files[f].end_of_tick
                /\ eot_entry[SchEntry(f)].tick_num = sch_files[f].tick_num
====
